---- MODULE Spec2Model ----
(***************************************************************************)
(* platform2: resourced, cros-fuzz and hiberman.                           *)
(*                                                                         *)
(* resourced: the shared workload-mode cells (common.rs), the EPP / GT     *)
(* boost policy they drive, the D-Bus request handlers and the reactor     *)
(* loop of service_main (dbus.rs).                                         *)
(*                                                                         *)
(* Spec        the state store, the policy and the request handlers, each  *)
(*             call one atomic step (the daemon runs them on one thread).  *)
(* SpecPoison  Spec, plus a call that panics while it holds a lock.        *)
(* SpecThreads the state store called from several threads, one step per   *)
(*             lock operation.                                             *)
(* SpecReactor service_main: start-up, the poll loop, the timer and the    *)
(*             transport.                                                  *)
(* SpecCards   set_rtc_audio_active on a machine whose GT card directories *)
(*             come and go between the calls.                              *)
(*                                                                         *)
(* cros-fuzz: FuzzRng (rand.rs), the generator that hands out fuzzer input.*)
(* SpecFuzz    one FuzzRng over a bounded input, any sequence of calls.    *)
(*                                                                         *)
(* hiberman: ActivatedVolumeGroup (hiberutil.rs), the guard that activates *)
(* a volume group and deactivates it when dropped.                         *)
(* SpecLvm     activate_physical_vg and the drops of the guards it made.   *)
(***************************************************************************)
EXTENDS Integers, Sequences, FiniteSets, TLC

\* ------------------------------------------------------------------ bounds
\* Number of cpufreq policy directories the EPP glob matches.
NumPolicies == 2
\* Largest number of card directories the GT boost glob matches.
MaxCards == 2
\* Request bytes range over 0..MaxByte (a u8 in the code).
MaxByte == 3

\* The timer expires at most MaxTicks times and the transport delivers at most
\* MaxMsgs requests.
MaxTicks == 3
MaxMsgs == 2
\* Number of threads that call the store concurrently.
NumThreads == 2
\* The fuzzer input a FuzzRng is made from is at most MaxInput bytes long, and
\* a destination slice at most MaxDest.
MaxInput == 3
MaxDest == 3
\* activate_physical_vg is called at most MaxVgCalls times.
MaxVgCalls == 2

Policies == 1..NumPolicies
Bytes == 0..MaxByte
Threads == 1..NumThreads

\* ------------------------------------------------------------ device values
\* Contents a gt_min_freq_mhz / gt_max_freq_mhz file may hold.
Freqs == {"300", "900"}
\* What an EPP file and a boost file hold before the daemon wrote them.
EppInitial == "performance"
BoostInitial == "1100"
NoFile == "<no file>"
\* Contents of the min / max files of the cards that are not enumerated last.
OtherMin == "100"
OtherMax == "1300"
\* Directory index of the fallback card path "/" (no glob match).
RootDir == 0

VARIABLES
    GAME_MODE,          \* common.rs:49
    RTC_AUDIO_ACTIVE,   \* common.rs:83
    FULLSCREEN_VIDEO,   \* common.rs:105
    poisoned,           \* the cells whose mutex is poisoned (lock() returns Err)
    epp,                \* policy index -> content of energy_performance_preference
    ncards,             \* how many card directories the GT boost glob yields
    gt_min,             \* card -> content of gt_min_freq_mhz
    gt_max,             \* card -> content of gt_max_freq_mhz
    gt_boost,           \* directory (RootDir or a card) -> content of gt_boost_freq_mhz
    last,               \* the most recent call: operation, argument, result, cells before
    oplog,              \* the device reads and writes of the most recent call, in order
    policy_ok,          \* result of the most recent RTC / fullscreen setter (under threads:
                        \* of the setter calls since no thread was in one)
    game_req,           \* the byte of the most recent SetGameMode request that succeeded
    pc,                 \* where service_main stands
    boot,               \* how many start-up steps of service_main are done
    events,             \* the events of the current poll result not yet handled
    timer_count,        \* expirations of check_timer not yet read
    inbox,              \* requests the transport holds for the daemon
    stats,              \* counts of what the timer, the transport and the reactor did
    tick,               \* the timer event being handled (or handled last): its sample, its sends
    th,                 \* thread -> the store call it is in, the step it is at, the cells it read
    holder,             \* lock -> the thread that holds its guard (NoThread: free)
    buf,                \* rand.rs:17, FuzzRng.buf: the input not yet handed out
    dest,               \* the destination slice of the most recent FuzzRng call, after it
    rng,                \* the FuzzRng's input and target, and the record of its most recent call
    vg_device,          \* whether /dev/<vg>/unencrypted exists (the volume group is active)
    avgs                \* the ActivatedVolumeGroup objects created so far, in order

storeVars == <<GAME_MODE, RTC_AUDIO_ACTIVE, FULLSCREEN_VIDEO, poisoned>>
deviceVars == <<epp, ncards, gt_min, gt_max, gt_boost>>
histVars == <<last, oplog, policy_ok, game_req>>
reactorVars == <<pc, boot, events, timer_count, inbox, stats, tick>>
threadVars == <<th, holder>>
fuzzVars == <<buf, dest, rng>>
lvmVars == <<vg_device, avgs>>
vars == <<storeVars, deviceVars, histVars, reactorVars, threadVars, fuzzVars, lvmVars>>

\* ------------------------------------------------------------- conversions
\* Mutant: every non-zero byte decodes to Borealis.
GameModeFromU8_NonZero(b) ==
    IF b = 0 THEN "Off" ELSE "Borealis"

\* dbus.rs set_game_mode: the match on the request byte.
GameModeFromU8(b) ==
    IF b = 0 THEN "Off"
    ELSE IF b = 1 THEN "Borealis"
    ELSE "Unsupported"

\* dbus.rs get_game_mode: `game_mode as u8`, the enum's discriminant.
GameModeAsU8(m) ==
    IF m = "Off" THEN 0 ELSE 1

\* --------------------------------------------------------------- device I/O
OpRec(kind, at, val, ok) == [kind |-> kind, at |-> at, val |-> val, ok |-> ok]

\* Mutant: a write that fails is skipped and the files after it are written.
set_epp_KeepsGoing(e, value, failAt) ==
    [epp |-> [i \in Policies |-> IF i = failAt THEN e[i] ELSE value],
     log |-> [i \in Policies |-> OpRec("write_epp", i, value, i # failAt)],
     ok  |-> failAt = 0]

\* set_epp: writes value to the matched files in glob order; the first entry
\* or write that fails (failAt, 0 for none) ends the call with an error.
set_epp(e, value, failAt) ==
    LET n == IF failAt = 0 THEN NumPolicies ELSE failAt
    IN [epp |-> [i \in Policies |-> IF i < failAt \/ failAt = 0 THEN value ELSE e[i]],
        log |-> [i \in 1..n |-> OpRec("write_epp", i, value, i # failAt)],
        ok  |-> failAt = 0]

\* Mutant: the boosted value needs both cells Active.
update_epp_if_needed_And(p, rtc, fsv, e, failAt) ==
    IF "RTC_AUDIO_ACTIVE" \in p \/ "FULLSCREEN_VIDEO" \in p
    THEN [epp |-> e, log |-> <<>>, ok |-> FALSE]
    ELSE IF rtc = "Active" /\ fsv = "Active"
    THEN set_epp(e, "179", failAt)
    ELSE set_epp(e, "balance_performance", failAt)

\* update_epp_if_needed: lock both cells (RTC first), then choose the value from
\* both; the second branch repeats the negation of the first, so the final
\* ELSE is never taken.
update_epp_if_needed(p, rtc, fsv, e, failAt) ==
    IF "RTC_AUDIO_ACTIVE" \in p \/ "FULLSCREEN_VIDEO" \in p
    THEN [epp |-> e, log |-> <<>>, ok |-> FALSE]
    ELSE IF rtc = "Active" \/ fsv = "Active"
    THEN set_epp(e, "179", failAt)
    ELSE IF rtc # "Active" /\ fsv # "Active"
    THEN set_epp(e, "balance_performance", failAt)
    ELSE [epp |-> e, log |-> <<>>, ok |-> TRUE]

\* The glob of set_gt_boost_freq_mhz yields the card directories in order.
CardEntries(n) == [i \in 1..n |-> i]

\* Mutant: the glob loop stops at the first entry.
GlobCard_First(entries, card) ==
    IF entries = <<>> THEN card ELSE Head(entries)

\* The glob loop of set_gt_boost_freq_mhz: every yielded entry overwrites
\* card, so the entry enumerated last is kept.
RECURSIVE GlobCard(_, _)
GlobCard(entries, card) ==
    IF entries = <<>> THEN card
    ELSE GlobCard(Tail(entries), Head(entries))

\* read_gt_sysfs: the file's content, or an error.
read_gt_sysfs(content, readOk) ==
    IF readOk /\ content # NoFile
    THEN [ok |-> TRUE, val |-> content]
    ELSE [ok |-> FALSE, val |-> NoFile]

SentinelMin == "gt boost fail to read sysfs min freq"
SentinelMax == "gt boost fail to read sysfs max freq"

\* Mutant: min and max swapped.
GtBoostValue_Swapped(mode, rmin, rmax) ==
    IF mode = "Active"
    THEN (IF rmax.ok THEN rmax.val ELSE SentinelMax)
    ELSE (IF rmin.ok THEN rmin.val ELSE SentinelMin)

\* The value set_gt_boost_freq_mhz writes, from the mode and the two reads.
GtBoostValue(mode, rmin, rmax) ==
    IF mode = "Active"
    THEN (IF rmin.ok THEN rmin.val ELSE SentinelMin)
    ELSE (IF rmax.ok THEN rmax.val ELSE SentinelMax)

\* set_gt_boost_freq_mhz: pick the card (initially "/"), read min and max,
\* write the boost file of that directory.
set_gt_boost_freq_mhz(mode, dev, env) ==
    LET card  == GlobCard(CardEntries(dev.n), RootDir)
        rmin  == read_gt_sysfs(dev.mins[card], env.minOk)
        rmax  == read_gt_sysfs(dev.maxs[card], env.maxOk)
        value == GtBoostValue(mode, rmin, rmax)
    IN [boost |-> IF env.writeOk THEN [dev.boost EXCEPT ![card] = value] ELSE dev.boost,
        log   |-> << OpRec("read_min", card, rmin.val, rmin.ok),
                     OpRec("read_max", card, rmax.val, rmax.ok),
                     OpRec("write_boost", card, value, env.writeOk) >>,
        ok    |-> env.writeOk]

\* ------------------------------------------------------------- state store
\* Mutant: a failing EPP write restores the cell's previous mode.
set_rtc_audio_active_Rollback(p, mode, rtc, fsv, dev, env) ==
    LET value == IF mode = "Active" THEN "179" ELSE "balance_performance"
        r1 == set_epp(dev.epp, value, env.f1)
        r2 == set_gt_boost_freq_mhz(mode, dev, env)
        r3 == update_epp_if_needed(p, mode, fsv, r1.epp, env.f2)
    IN IF "RTC_AUDIO_ACTIVE" \in p
       THEN [cell |-> rtc, epp |-> dev.epp, boost |-> dev.boost, log |-> <<>>, ok |-> FALSE]
       ELSE IF ~r1.ok
       THEN [cell |-> rtc, epp |-> r1.epp, boost |-> dev.boost, log |-> r1.log, ok |-> FALSE]
       ELSE IF ~r2.ok
       THEN [cell |-> mode, epp |-> r1.epp, boost |-> r2.boost,
             log |-> r1.log \o r2.log, ok |-> FALSE]
       ELSE [cell |-> IF r3.ok THEN mode ELSE rtc, epp |-> r3.epp, boost |-> r2.boost,
             log |-> r1.log \o r2.log \o r3.log, ok |-> r3.ok]

\* Mutant: the error of the GT boost update is dropped and the re-evaluation runs.
set_rtc_audio_active_IgnoresBoostError(p, mode, rtc, fsv, dev, env) ==
    LET value == IF mode = "Active" THEN "179" ELSE "balance_performance"
        r1 == set_epp(dev.epp, value, env.f1)
        r2 == set_gt_boost_freq_mhz(mode, dev, env)
        r3 == update_epp_if_needed(p, mode, fsv, r1.epp, env.f2)
    IN IF "RTC_AUDIO_ACTIVE" \in p
       THEN [cell |-> rtc, epp |-> dev.epp, boost |-> dev.boost, log |-> <<>>, ok |-> FALSE]
       ELSE IF ~r1.ok
       THEN [cell |-> mode, epp |-> r1.epp, boost |-> dev.boost, log |-> r1.log, ok |-> FALSE]
       ELSE [cell |-> mode, epp |-> r3.epp, boost |-> r2.boost,
             log |-> r1.log \o r2.log \o r3.log, ok |-> r3.ok]

\* set_rtc_audio_active: under the RTC lock store the mode, write the EPP value
\* of that mode and update the GT boost; then re-evaluate the EPP from both
\* cells. dev is the sysfs tree; env holds the outcomes the devices give this
\* call: f1 and f2 the failing positions of the two set_epp calls, minOk / maxOk
\* / writeOk those of the GT reads and the boost write.
set_rtc_audio_active(p, mode, rtc, fsv, dev, env) ==
    LET value == IF mode = "Active" THEN "179" ELSE "balance_performance"
        r1 == set_epp(dev.epp, value, env.f1)
        r2 == set_gt_boost_freq_mhz(mode, dev, env)
        r3 == update_epp_if_needed(p, mode, fsv, r1.epp, env.f2)
    IN IF "RTC_AUDIO_ACTIVE" \in p
       THEN [cell |-> rtc, epp |-> dev.epp, boost |-> dev.boost, log |-> <<>>, ok |-> FALSE]
       ELSE IF ~r1.ok
       THEN [cell |-> mode, epp |-> r1.epp, boost |-> dev.boost, log |-> r1.log, ok |-> FALSE]
       ELSE IF ~r2.ok
       THEN [cell |-> mode, epp |-> r1.epp, boost |-> r2.boost,
             log |-> r1.log \o r2.log, ok |-> FALSE]
       ELSE [cell |-> mode, epp |-> r3.epp, boost |-> r2.boost,
             log |-> r1.log \o r2.log \o r3.log, ok |-> r3.ok]

\* Mutant: a failing re-evaluation restores the cell's previous mode.
set_fullscreen_video_Rollback(p, mode, rtc, fsv, e, failAt) ==
    LET r == update_epp_if_needed(p, rtc, mode, e, failAt)
    IN IF "FULLSCREEN_VIDEO" \in p
       THEN [cell |-> fsv, epp |-> e, log |-> <<>>, ok |-> FALSE]
       ELSE [cell |-> IF r.ok THEN mode ELSE fsv, epp |-> r.epp, log |-> r.log,
             ok |-> r.ok]

\* set_fullscreen_video: store the mode, then re-evaluate the EPP.
set_fullscreen_video(p, mode, rtc, fsv, e, failAt) ==
    LET r == update_epp_if_needed(p, rtc, mode, e, failAt)
    IN IF "FULLSCREEN_VIDEO" \in p
       THEN [cell |-> fsv, epp |-> e, log |-> <<>>, ok |-> FALSE]
       ELSE [cell |-> mode, epp |-> r.epp, log |-> r.log, ok |-> r.ok]

\* Mutant: the mode is not stored.
set_game_mode_Dropped(p, mode, cell) ==
    IF "GAME_MODE" \in p
    THEN [cell |-> cell, ok |-> FALSE]
    ELSE [cell |-> cell, ok |-> TRUE]

\* common::set_game_mode: store the mode.
set_game_mode(p, mode, cell) ==
    IF "GAME_MODE" \in p
    THEN [cell |-> cell, ok |-> FALSE]
    ELSE [cell |-> mode, ok |-> TRUE]

\* common::get_game_mode.
get_game_mode(p, cell) ==
    IF "GAME_MODE" \in p THEN [ok |-> FALSE, val |-> cell] ELSE [ok |-> TRUE, val |-> cell]

\* Mutant: the getter takes the value out of a poisoned lock.
get_rtc_audio_active_IntoInner(p, cell) ==
    [ok |-> TRUE, val |-> cell]

\* common::get_rtc_audio_active.
get_rtc_audio_active(p, cell) ==
    IF "RTC_AUDIO_ACTIVE" \in p THEN [ok |-> FALSE, val |-> cell]
    ELSE [ok |-> TRUE, val |-> cell]

\* Mutant: the getter returns the default mode.
get_fullscreen_video_Default(p, cell) ==
    IF "FULLSCREEN_VIDEO" \in p THEN [ok |-> FALSE, val |-> cell]
    ELSE [ok |-> TRUE, val |-> "Inactive"]

\* common::get_fullscreen_video.
get_fullscreen_video(p, cell) ==
    IF "FULLSCREEN_VIDEO" \in p THEN [ok |-> FALSE, val |-> cell]
    ELSE [ok |-> TRUE, val |-> cell]

\* ---------------------------------------------------------- service facade
\* Mutant: the byte is stored as decoded, without the check of try_from's result.
SetGameModeHandler_Unchecked(p, argOk, b, cell) ==
    IF ~argOk THEN [cell |-> cell, ok |-> FALSE, stored |-> FALSE]
    ELSE LET r == set_game_mode(p, GameModeFromU8(b), cell)
         IN [cell |-> r.cell, ok |-> r.ok, stored |-> TRUE]

\* dbus.rs set_game_mode: read the u8 argument, decode it, store it. stored
\* tells whether common::set_game_mode was called.
SetGameModeHandler(p, argOk, b, cell) ==
    IF ~argOk THEN [cell |-> cell, ok |-> FALSE, stored |-> FALSE]
    ELSE LET mode == GameModeFromU8(b)
         IN IF mode = "Unsupported"
            THEN [cell |-> cell, ok |-> FALSE, stored |-> FALSE]
            ELSE LET r == set_game_mode(p, mode, cell)
                 IN [cell |-> r.cell, ok |-> r.ok, stored |-> TRUE]

\* dbus.rs get_game_mode: the stored mode as a u8.
GetGameModeHandler(p, cell) ==
    LET r == get_game_mode(p, cell)
    IN [ok |-> r.ok, val |-> IF r.ok THEN GameModeAsU8(r.val) ELSE 0]

\* ------------------------------------------------------------------- state
Modes == {"Inactive", "Active"}
GameModes == {"Off", "Borealis"}
Dirs == 0..MaxCards

Cells == <<GAME_MODE, RTC_AUDIO_ACTIVE, FULLSCREEN_VIDEO>>

\* The names of the three cells' locks.
CellNames == {"GAME_MODE", "RTC_AUDIO_ACTIVE", "FULLSCREEN_VIDEO"}

\* A lock no thread holds.
NoThread == 0
\* A thread that is in no call of the store.
Idle == [op |-> "idle", mode |-> "", at |-> 0, val |-> <<>>]

\* Some write of an EPP file failed in the most recent call.
EppWriteFailed ==
    \E k \in DOMAIN oplog : oplog[k].kind = "write_epp" /\ ~oplog[k].ok

\* What a getter's record keeps of the most recent setter call before it.
Getters == {"GetGameMode", "get_rtc_audio_active", "get_fullscreen_video"}
NoPrev == [op |-> "none", mode |-> "", ok |-> TRUE, eppfail |-> FALSE]
Prev ==
    IF last.op \in Getters THEN last.after
    ELSE [op |-> last.op, mode |-> last.mode, ok |-> last.ok, eppfail |-> EppWriteFailed]

\* The record of a call: op, its argument (byte or mode), its result, the
\* value a getter returned, whether the store's setter ran, the cells before,
\* and (for a getter) the call it follows.
Call(op, byte, mode, ok, ret_u8, ret_mode, stored, after) ==
    [op |-> op, byte |-> byte, mode |-> mode, ok |-> ok, ret_u8 |-> ret_u8,
     ret_mode |-> ret_mode, stored |-> stored, pre |-> Cells, after |-> after]

\* The sysfs tree as the policy code sees it.
Devices ==
    [epp |-> epp, n |-> ncards, mins |-> gt_min, maxs |-> gt_max, boost |-> gt_boost]

InitStore ==
    /\ GAME_MODE = "Off"
    /\ RTC_AUDIO_ACTIVE = "Inactive"
    /\ FULLSCREEN_VIDEO = "Inactive"
    /\ poisoned = {}

\* The sysfs tree the daemon starts on: every policy file exists; ncards card
\* directories hold the three GT files, the one enumerated last with any
\* min / max in Freqs and the others with OtherMin / OtherMax; "/" holds none.
InitDevices ==
    /\ epp = [i \in Policies |-> EppInitial]
    /\ ncards \in 0..MaxCards
    /\ \E lo \in Freqs, hi \in Freqs :
          /\ (ncards = 0 => lo = "300" /\ hi = "300")
          /\ gt_min = [d \in Dirs |-> IF d = 0 \/ d > ncards THEN NoFile
                                      ELSE IF d = ncards THEN lo ELSE OtherMin]
          /\ gt_max = [d \in Dirs |-> IF d = 0 \/ d > ncards THEN NoFile
                                      ELSE IF d = ncards THEN hi ELSE OtherMax]
    /\ gt_boost = [d \in Dirs |-> IF d \in 1..ncards THEN BoostInitial ELSE NoFile]

InitHist ==
    /\ last = [op |-> "none", byte |-> 0, mode |-> "", ok |-> TRUE, ret_u8 |-> 0,
               ret_mode |-> "", stored |-> FALSE,
               pre |-> <<"Off", "Inactive", "Inactive">>, after |-> NoPrev]
    /\ oplog = <<>>
    /\ policy_ok = "none"
    /\ game_req = [set |-> FALSE, byte |-> 0]

\* The record of a timer event before its sample: prev is the result of the
\* sample of the timer event before it.
NoTick(prev) == [sample |-> "none", samples |-> 0, sent |-> 0, prev |-> prev]

\* service_main has not started; the timer does not exist yet.
InitReactor ==
    /\ pc = "boot"
    /\ boot = 0
    /\ events = <<>>
    /\ timer_count = 0
    /\ inbox = <<>>
    /\ stats = [ticks |-> 0, msgs |-> 0, timer_events |-> 0, drains |-> 0,
                samples |-> 0, samples_ok |-> 0, broadcasts |-> 0, handled |-> 0]
    /\ tick = NoTick("none")

\* No thread is in a call and every lock is free.
InitThreads ==
    /\ th = [t \in Threads |-> Idle]
    /\ holder = [c \in CellNames |-> NoThread]

\* The daemon's process: its cells, devices, reactor and threads.
InitResourced == InitStore /\ InitDevices /\ InitHist /\ InitReactor /\ InitThreads

\* The daemon holds no FuzzRng and no ActivatedVolumeGroup.
NoFuzzRng ==
    /\ buf = <<>>
    /\ dest = <<>>
    /\ rng = [input |-> <<>>, target |-> "", op |-> "none", n |-> 0, ok |-> TRUE,
              val |-> <<>>, pre |-> <<>>, out |-> <<>>,
              prev |-> [op |-> "none", ok |-> TRUE]]
NoVolumeGroup ==
    /\ vg_device = FALSE
    /\ avgs = <<>>

Init == InitResourced /\ NoFuzzRng /\ NoVolumeGroup

\* ----------------------------------------------------------------- actions
\* Mutant: a SetGameMode request also re-evaluates the EPP policy.
SetGameModeReq_Reevaluates ==
    \E argOk \in BOOLEAN, b \in Bytes :
       /\ (~argOk => b = 0)
       /\ \E r \in {SetGameModeHandler(poisoned, argOk, b, GAME_MODE)} :
             /\ GAME_MODE' = r.cell
             /\ last' = Call("SetGameMode", b, IF argOk THEN "u8" ELSE "bad", r.ok,
                             0, "", r.stored, NoPrev)
             /\ game_req' = IF r.ok THEN [set |-> TRUE, byte |-> b] ELSE game_req
       /\ \E u \in {update_epp_if_needed(poisoned, RTC_AUDIO_ACTIVE, FULLSCREEN_VIDEO, epp, 0)} :
             /\ epp' = u.epp
             /\ oplog' = u.log
       /\ UNCHANGED <<RTC_AUDIO_ACTIVE, FULLSCREEN_VIDEO, poisoned, ncards, gt_min, gt_max,
                      gt_boost, policy_ok, reactorVars, threadVars,
                      fuzzVars, lvmVars>>

\* A SetGameMode request carrying byte b (argOk: the argument is a u8).
SetGameModeReq ==
    \E argOk \in BOOLEAN, b \in Bytes :
       /\ (~argOk => b = 0)
       /\ \E r \in {SetGameModeHandler(poisoned, argOk, b, GAME_MODE)} :
             /\ GAME_MODE' = r.cell
             /\ last' = Call("SetGameMode", b, IF argOk THEN "u8" ELSE "bad", r.ok,
                             0, "", r.stored, NoPrev)
             /\ game_req' = IF r.ok THEN [set |-> TRUE, byte |-> b] ELSE game_req
       /\ oplog' = <<>>
       /\ UNCHANGED <<RTC_AUDIO_ACTIVE, FULLSCREEN_VIDEO, poisoned, deviceVars, policy_ok,
                      reactorVars, threadVars,
                      fuzzVars, lvmVars>>

\* A GetGameMode request.
GetGameModeReq ==
    /\ \E r \in {GetGameModeHandler(poisoned, GAME_MODE)} :
          last' = Call("GetGameMode", 0, "", r.ok, r.val, "", FALSE, Prev)
    /\ oplog' = <<>>
    /\ UNCHANGED <<storeVars, deviceVars, policy_ok, game_req, reactorVars, threadVars,
                   fuzzVars, lvmVars>>

\* A call of set_rtc_audio_active(mode); the device outcomes are the
\* environment's choice, those after the first failure are not drawn.
SetRtcAudioActive ==
    \E mode \in Modes, f1 \in 0..NumPolicies, minOk \in BOOLEAN, maxOk \in BOOLEAN,
       writeOk \in BOOLEAN, f2 \in 0..NumPolicies :
       /\ (f1 # 0 => minOk /\ maxOk /\ writeOk)
       /\ (f1 # 0 \/ ~writeOk => f2 = 0)
       /\ \E r \in {set_rtc_audio_active(poisoned, mode, RTC_AUDIO_ACTIVE,
                       FULLSCREEN_VIDEO, Devices,
                       [f1 |-> f1, minOk |-> minOk, maxOk |-> maxOk,
                        writeOk |-> writeOk, f2 |-> f2])} :
             /\ RTC_AUDIO_ACTIVE' = r.cell
             /\ epp' = r.epp
             /\ gt_boost' = r.boost
             /\ oplog' = r.log
             /\ last' = Call("set_rtc_audio_active", 0, mode, r.ok, 0, "", FALSE, NoPrev)
             /\ policy_ok' = IF r.ok THEN "ok" ELSE "failed"
       /\ UNCHANGED <<GAME_MODE, FULLSCREEN_VIDEO, poisoned, ncards, gt_min, gt_max,
                      game_req, reactorVars, threadVars,
                      fuzzVars, lvmVars>>

\* A call of get_rtc_audio_active().
GetRtcAudioActive ==
    /\ \E r \in {get_rtc_audio_active(poisoned, RTC_AUDIO_ACTIVE)} :
          last' = Call("get_rtc_audio_active", 0, "", r.ok, 0,
                       IF r.ok THEN r.val ELSE "", FALSE, Prev)
    /\ oplog' = <<>>
    /\ UNCHANGED <<storeVars, deviceVars, policy_ok, game_req, reactorVars, threadVars,
                   fuzzVars, lvmVars>>

\* Mutant: set_fullscreen_video also updates the GT boost, from its own mode.
SetFullscreenVideo_UpdatesGtBoost ==
    \E mode \in Modes, f \in 0..NumPolicies :
       /\ \E r \in {set_fullscreen_video(poisoned, mode, RTC_AUDIO_ACTIVE,
                       FULLSCREEN_VIDEO, epp, f)} :
             /\ FULLSCREEN_VIDEO' = r.cell
             /\ epp' = r.epp
             /\ \E g \in {set_gt_boost_freq_mhz(mode, Devices,
                               [minOk |-> TRUE, maxOk |-> TRUE, writeOk |-> TRUE])} :
                   /\ gt_boost' = g.boost
                   /\ oplog' = r.log \o g.log
             /\ last' = Call("set_fullscreen_video", 0, mode, r.ok, 0, "", FALSE, NoPrev)
             /\ policy_ok' = IF r.ok THEN "ok" ELSE "failed"
       /\ UNCHANGED <<GAME_MODE, RTC_AUDIO_ACTIVE, poisoned, ncards, gt_min, gt_max,
                      game_req, reactorVars, threadVars,
                      fuzzVars, lvmVars>>

\* A call of set_fullscreen_video(mode).
SetFullscreenVideo ==
    \E mode \in Modes, f \in 0..NumPolicies :
       /\ \E r \in {set_fullscreen_video(poisoned, mode, RTC_AUDIO_ACTIVE,
                       FULLSCREEN_VIDEO, epp, f)} :
             /\ FULLSCREEN_VIDEO' = r.cell
             /\ epp' = r.epp
             /\ oplog' = r.log
             /\ last' = Call("set_fullscreen_video", 0, mode, r.ok, 0, "", FALSE, NoPrev)
             /\ policy_ok' = IF r.ok THEN "ok" ELSE "failed"
       /\ UNCHANGED <<GAME_MODE, RTC_AUDIO_ACTIVE, poisoned, ncards, gt_min, gt_max,
                      gt_boost, game_req, reactorVars, threadVars,
                      fuzzVars, lvmVars>>

\* A call of get_fullscreen_video().
GetFullscreenVideo ==
    /\ \E r \in {get_fullscreen_video(poisoned, FULLSCREEN_VIDEO)} :
          last' = Call("get_fullscreen_video", 0, "", r.ok, 0,
                       IF r.ok THEN r.val ELSE "", FALSE, Prev)
    /\ oplog' = <<>>
    /\ UNCHANGED <<storeVars, deviceVars, policy_ok, game_req, reactorVars, threadVars,
                   fuzzVars, lvmVars>>

Next ==
    \/ SetGameModeReq
    \/ GetGameModeReq
    \/ SetRtcAudioActive
    \/ GetRtcAudioActive
    \/ SetFullscreenVideo
    \/ GetFullscreenVideo

Spec == Init /\ [][Next]_vars

\* ------------------------------------------------------- a poisoned lock
\* A call of set_rtc_audio_active(mode) on a thread that panics inside
\* set_gt_boost_freq_mhz: the glob yields an error entry and the println! of
\* that entry fails (standard output is gone). The thread unwinds while it
\* holds the guard of RTC_AUDIO_ACTIVE, which poisons that lock: the mode is
\* stored, the first set_epp has written, no GT file was read or written and
\* update_epp_if_needed is not reached. It is the only place of the store
\* where a guard is held over code that can panic.
SetRtcAudioActivePanics ==
    \E mode \in Modes :
       /\ "RTC_AUDIO_ACTIVE" \notin poisoned
       /\ \E r1 \in {set_epp(epp, IF mode = "Active" THEN "179" ELSE "balance_performance", 0)} :
             /\ epp' = r1.epp
             /\ oplog' = r1.log
       /\ RTC_AUDIO_ACTIVE' = mode
       /\ poisoned' = poisoned \cup {"RTC_AUDIO_ACTIVE"}
       /\ last' = Call("panic in set_rtc_audio_active", 0, mode, FALSE, 0, "", FALSE, NoPrev)
       /\ policy_ok' = "panicked"
       /\ UNCHANGED <<GAME_MODE, FULLSCREEN_VIDEO, ncards, gt_min, gt_max, gt_boost,
                      game_req, reactorVars, threadVars,
                      fuzzVars, lvmVars>>

NextPoison ==
    \/ Next
    \/ SetRtcAudioActivePanics

\* The store on a machine with one GT card directory, called from several
\* threads of which one may panic.
InitPoison == Init /\ ncards = 1

SpecPoison == InitPoison /\ [][NextPoison]_vars

\* ------------------------------------------------- the store under threads
\* The steps of a call, at the grain of the lock operations: lock(c) blocks
\* until the guard of c is free, unlock(c) is the drop of the guard at the end
\* of its scope.
Lock(c) == [do |-> "lock", cell |-> c]
Unlock(c) == [do |-> "unlock", cell |-> c]
Do(what, c) == [do |-> what, cell |-> c]

\* Mutant: update_epp_if_needed reads the cells and writes without the guards.
update_epp_if_needed_Steps_Unlocked ==
    << Do("reeval_read", "both"), Do("reeval", "both") >>

\* update_epp_if_needed: RTC_AUDIO_ACTIVE is locked first, FULLSCREEN_VIDEO
\* inside its Ok arm; the condition reads both cells, then set_epp writes; the
\* guards are dropped in the reverse order.
update_epp_if_needed_Steps ==
    << Lock("RTC_AUDIO_ACTIVE"), Lock("FULLSCREEN_VIDEO"), Do("reeval_read", "both"),
       Do("reeval", "both"), Unlock("FULLSCREEN_VIDEO"), Unlock("RTC_AUDIO_ACTIVE") >>

\* set_rtc_audio_active: the store, set_epp and set_gt_boost_freq_mhz run
\* inside the Ok arm of the match on the lock; the guard is dropped at the end
\* of the match, before update_epp_if_needed is called.
set_rtc_audio_active_Steps ==
    << Lock("RTC_AUDIO_ACTIVE"), Do("store", "RTC_AUDIO_ACTIVE"),
       Do("set_epp", "RTC_AUDIO_ACTIVE"), Do("set_gt_boost", "RTC_AUDIO_ACTIVE"),
       Unlock("RTC_AUDIO_ACTIVE") >> \o update_epp_if_needed_Steps

\* Mutant: update_epp_if_needed is called inside the scope of the guard.
set_fullscreen_video_Steps_Nested ==
    << Lock("FULLSCREEN_VIDEO"), Do("store", "FULLSCREEN_VIDEO") >>
        \o update_epp_if_needed_Steps \o << Unlock("FULLSCREEN_VIDEO") >>

\* set_fullscreen_video: the guard is dropped at the end of the match, before
\* update_epp_if_needed is called.
set_fullscreen_video_Steps ==
    << Lock("FULLSCREEN_VIDEO"), Do("store", "FULLSCREEN_VIDEO"),
       Unlock("FULLSCREEN_VIDEO") >> \o update_epp_if_needed_Steps

\* A getter, and set_game_mode: one access inside the guard's scope.
Accessor_Steps(what, c) == << Lock(c), Do(what, c), Unlock(c) >>

\* The steps of each public function of the store.
Program(op) ==
    CASE op = "set_game_mode" -> Accessor_Steps("store", "GAME_MODE")
      [] op = "get_game_mode" -> Accessor_Steps("read", "GAME_MODE")
      [] op = "set_rtc_audio_active" -> set_rtc_audio_active_Steps
      [] op = "get_rtc_audio_active" -> Accessor_Steps("read", "RTC_AUDIO_ACTIVE")
      [] op = "set_fullscreen_video" -> set_fullscreen_video_Steps
      [] op = "get_fullscreen_video" -> Accessor_Steps("read", "FULLSCREEN_VIDEO")
      [] OTHER -> << >>

\* The calls a thread may make.
ThreadCalls ==
    {[op |-> "set_game_mode", mode |-> g, at |-> 1, val |-> <<>>] : g \in GameModes}
    \cup {[op |-> o, mode |-> m, at |-> 1, val |-> <<>>] :
             o \in {"set_rtc_audio_active", "set_fullscreen_video"}, m \in Modes}
    \cup {[op |-> o, mode |-> "", at |-> 1, val |-> <<>>] :
             o \in {"get_game_mode", "get_rtc_audio_active", "get_fullscreen_video"}}

\* The two setters that drive the EPP policy, and the threads that are in one.
PolicySetters == {"set_rtc_audio_active", "set_fullscreen_video"}
InPolicySetter == {t \in Threads : th[t].op \in PolicySetters}

\* What policy_ok records of the setter calls made since no thread was in
\* one: a device operation of one of them failed; or none did, and one of the
\* calls began while another was under way, or none.
AfterCall(op) ==
    IF op \notin PolicySetters THEN policy_ok
    ELSE IF InPolicySetter = {} THEN "ok"
    ELSE IF policy_ok = "failed" THEN "failed"
    ELSE "ok, overlapped"
AfterDeviceOp(ok) ==
    IF ok THEN policy_ok ELSE "failed"

\* Where the devices make a thread's set_epp fail: nowhere, or at the file
\* enumerated first (no file is written).
ThreadFailAts == {0, 1}

\* The step thread t is at.
StepOf(t) == Program(th[t].op)[th[t].at]

\* The steps that use the mode passed to the call.
UsesMode == {"store", "set_epp", "set_gt_boost"}

\* The mode thread t carries past its current step: the call's argument as
\* long as a later step of the call uses it.
ModeAfter(t) ==
    IF \E j \in (th[t].at + 1)..Len(Program(th[t].op)) : Program(th[t].op)[j].do \in UsesMode
    THEN th[t].mode ELSE ""

\* Thread t has done its step: the next one, or the call returns Ok.
Advance(t) ==
    th' = [th EXCEPT ![t] = IF th[t].at = Len(Program(th[t].op)) THEN Idle
                              ELSE [@ EXCEPT !.at = @ + 1, !.mode = ModeAfter(t)]]

\* Thread t has read the cells for the re-evaluation.
AdvanceWith(t, cells) ==
    th' = [th EXCEPT ![t] = [@ EXCEPT !.at = @ + 1, !.mode = ModeAfter(t), !.val = cells]]

\* The call of thread t returns (an error through `?`): its guards are dropped.
Return(t) ==
    /\ th' = [th EXCEPT ![t] = Idle]
    /\ holder' = [c \in CellNames |-> IF holder[c] = t THEN NoThread ELSE holder[c]]

\* A thread calls a function of the store.
ThreadCall ==
    \E t \in Threads, call \in ThreadCalls :
       /\ th[t] = Idle
       /\ th' = [th EXCEPT ![t] = call]
       /\ policy_ok' = AfterCall(call.op)
       /\ UNCHANGED <<storeVars, deviceVars, last, oplog, game_req, reactorVars, holder,
                      fuzzVars, lvmVars>>

\* lock(): returns the guard once no thread holds it (the Mutex is not
\* reentrant: a thread that holds the guard itself waits for ever).
ThreadLock ==
    \E t \in Threads :
       /\ th[t] # Idle
       /\ StepOf(t).do = "lock"
       /\ holder[StepOf(t).cell] = NoThread
       /\ holder' = [holder EXCEPT ![StepOf(t).cell] = t]
       /\ Advance(t)
       /\ UNCHANGED <<storeVars, deviceVars, histVars, reactorVars,
                      fuzzVars, lvmVars>>

\* The guard goes out of scope.
ThreadUnlock ==
    \E t \in Threads :
       /\ th[t] # Idle
       /\ StepOf(t).do = "unlock"
       /\ holder' = [holder EXCEPT ![StepOf(t).cell] = NoThread]
       /\ Advance(t)
       /\ UNCHANGED <<storeVars, deviceVars, histVars, reactorVars,
                      fuzzVars, lvmVars>>

\* `*data = mode` under the guard.
ThreadStore ==
    \E t \in Threads :
       /\ th[t] # Idle
       /\ StepOf(t).do = "store"
       /\ GAME_MODE' = IF StepOf(t).cell = "GAME_MODE" THEN th[t].mode ELSE GAME_MODE
       /\ RTC_AUDIO_ACTIVE' = IF StepOf(t).cell = "RTC_AUDIO_ACTIVE" THEN th[t].mode
                              ELSE RTC_AUDIO_ACTIVE
       /\ FULLSCREEN_VIDEO' = IF StepOf(t).cell = "FULLSCREEN_VIDEO" THEN th[t].mode
                              ELSE FULLSCREEN_VIDEO
       /\ Advance(t)
       /\ UNCHANGED <<poisoned, deviceVars, histVars, reactorVars, holder,
                      fuzzVars, lvmVars>>

\* `Ok(*data)` under the guard.
ThreadRead ==
    \E t \in Threads :
       /\ th[t] # Idle
       /\ StepOf(t).do = "read"
       /\ Advance(t)
       /\ UNCHANGED <<storeVars, deviceVars, histVars, reactorVars, holder,
                      fuzzVars, lvmVars>>

\* set_rtc_audio_active: set_epp of the value of the mode alone; an error
\* returns from the call.
ThreadSetEpp ==
    \E t \in Threads, f \in ThreadFailAts :
       /\ th[t] # Idle
       /\ StepOf(t).do = "set_epp"
       /\ \E r \in {set_epp(epp, IF th[t].mode = "Active" THEN "179"
                                  ELSE "balance_performance", f)} :
             /\ epp' = r.epp
             /\ policy_ok' = AfterDeviceOp(r.ok)
             /\ IF r.ok THEN Advance(t) /\ holder' = holder ELSE Return(t)
       /\ UNCHANGED <<storeVars, ncards, gt_min, gt_max, gt_boost, last, oplog, game_req,
                      reactorVars,
                      fuzzVars, lvmVars>>

\* set_rtc_audio_active: set_gt_boost_freq_mhz; an error returns from the call.
ThreadSetGtBoost ==
    \E t \in Threads, writeOk \in BOOLEAN :
       /\ th[t] # Idle
       /\ StepOf(t).do = "set_gt_boost"
       /\ \E r \in {set_gt_boost_freq_mhz(th[t].mode, Devices,
                       [minOk |-> TRUE, maxOk |-> TRUE, writeOk |-> writeOk])} :
             /\ gt_boost' = r.boost
             /\ policy_ok' = AfterDeviceOp(r.ok)
             /\ IF r.ok THEN Advance(t) /\ holder' = holder ELSE Return(t)
       /\ UNCHANGED <<storeVars, epp, ncards, gt_min, gt_max, last, oplog, game_req,
                      reactorVars,
                      fuzzVars, lvmVars>>

\* update_epp_if_needed: the condition of the if reads the two cells.
ThreadReevalRead ==
    \E t \in Threads :
       /\ th[t] # Idle
       /\ StepOf(t).do = "reeval_read"
       /\ AdvanceWith(t, <<RTC_AUDIO_ACTIVE, FULLSCREEN_VIDEO>>)
       /\ UNCHANGED <<storeVars, deviceVars, histVars, reactorVars, holder,
                      fuzzVars, lvmVars>>

\* update_epp_if_needed: set_epp of the value chosen from the two cells as
\* read; an error returns from the call.
ThreadReeval ==
    \E t \in Threads, f \in ThreadFailAts :
       /\ th[t] # Idle
       /\ StepOf(t).do = "reeval"
       /\ \E r \in {update_epp_if_needed(poisoned, th[t].val[1], th[t].val[2], epp, f)} :
             /\ epp' = r.epp
             /\ policy_ok' = AfterDeviceOp(r.ok)
             /\ IF r.ok THEN Advance(t) /\ holder' = holder ELSE Return(t)
       /\ UNCHANGED <<storeVars, ncards, gt_min, gt_max, gt_boost, last, oplog, game_req,
                      reactorVars,
                      fuzzVars, lvmVars>>

NextThreads ==
    \/ ThreadCall
    \/ ThreadLock
    \/ ThreadUnlock
    \/ ThreadStore
    \/ ThreadRead
    \/ ThreadSetEpp
    \/ ThreadSetGtBoost
    \/ ThreadReevalRead
    \/ ThreadReeval

\* The store called from NumThreads threads on a machine with one GT card.
InitThreaded == Init /\ ncards = 1 /\ gt_min[1] = "300" /\ gt_max[1] = "900"

SpecThreads == InitThreaded /\ [][NextThreads]_vars

\* ------------------------------------------------------------ service_main
\* The fallible start-up steps of service_main, in order; an error in any of
\* them returns from service_main before the loop.
StartupSteps ==
    << "Connection::new_system", "register_name", "set_registered", "TimerFd::new",
       "check_timer.reset", "PollContext::new", "poll_ctx.add", "add_fd_with_events" >>

\* The steps after which the connection exists and the timer is armed.
ConnectedAt == 1
ArmedAt == 5

\* The tokens whose source is ready: the timer while expirations are unread
\* (level-triggered), the transport's descriptor while it holds requests.
ReadySources(tc, ib) ==
    (IF tc > 0 THEN {"TimerMsg"} ELSE {}) \cup (IF ib # <<>> THEN {"DBusMsg"} ELSE {})

\* The orders in which one poll result may list the ready tokens.
PollOrders(ready) ==
    {o \in UNION {[1..n -> ready] : n \in 0..2} :
        /\ Len(o) = Cardinality(ready)
        /\ \A t \in ready : \E k \in DOMAIN o : o[k] = t}

\* Mutant: the sample is taken without reading the timer first.
TimerMsgEntry_NoDrain == "sample"

\* Token::TimerMsg: the arm starts with check_timer.wait().
TimerMsgEntry == "drain"

\* `check_timer.wait()?`: an error returns from service_main.
AfterDrain(ok) ==
    IF ok THEN "sample" ELSE "drain_failed"

\* Mutant: the signal is sent whatever the sample returned.
AfterSample_AlwaysSend(ok) == "send"

\* The match on get_memory_pressure_status_chrome(): Ok sends the signal, Err
\* is logged.
AfterSample(ok) ==
    IF ok THEN "send" ELSE "dispatch"

\* dbus.rs get_available_memory_kb / get_foreground_available_memory_kb: the
\* collaborator's value, or a failed method.
get_available_memory_kb(memOk) == [ok |-> memOk]
get_foreground_available_memory_kb(memOk) == [ok |-> memOk]

\* dbus.rs get_memory_margins_kb: never fails.
get_memory_margins_kb == [ok |-> TRUE]

\* The requests a client may send.
Requests ==
    {[op |-> "SetGameMode", argOk |-> TRUE, byte |-> b] : b \in Bytes}
    \cup {[op |-> "SetGameMode", argOk |-> FALSE, byte |-> 0]}
    \cup {[op |-> o, argOk |-> TRUE, byte |-> 0] :
            o \in {"GetGameMode", "GetAvailableMemoryKB",
                   "GetForegroundAvailableMemoryKB", "GetMemoryMarginsKB"}}

\* service_main has returned: before the loop, or out of it.
Returned == {"failed", "wait_failed", "drain_failed"}

Bump(field) == [stats EXCEPT ![field] = @ + 1]

\* Mutant: a start-up step that fails is skipped and the loop is entered.
Startup_IgnoresError ==
    /\ pc = "boot"
    /\ \E ok \in BOOLEAN :
          IF ok
          THEN /\ boot' = boot + 1
               /\ pc' = IF boot + 1 = Len(StartupSteps) THEN "wait" ELSE "boot"
          ELSE /\ pc' = "wait"
               /\ boot' = boot
    /\ UNCHANGED <<storeVars, deviceVars, histVars, threadVars, events, timer_count, inbox, stats, tick,
                   fuzzVars, lvmVars>>

\* One start-up step of service_main succeeds or fails.
Startup ==
    /\ pc = "boot"
    /\ \E ok \in BOOLEAN :
          IF ok
          THEN /\ boot' = boot + 1
               /\ pc' = IF boot + 1 = Len(StartupSteps) THEN "wait" ELSE "boot"
          ELSE /\ pc' = "failed"
               /\ boot' = boot
    /\ UNCHANGED <<storeVars, deviceVars, histVars, threadVars, events, timer_count, inbox, stats, tick,
                   fuzzVars, lvmVars>>

\* The armed timer expires.
Tick ==
    /\ pc \notin Returned
    /\ boot >= ArmedAt
    /\ stats.ticks < MaxTicks
    /\ timer_count' = timer_count + 1
    /\ stats' = Bump("ticks")
    /\ UNCHANGED <<storeVars, deviceVars, histVars, threadVars, pc, boot, events, inbox, tick,
                   fuzzVars, lvmVars>>

\* A client's request reaches the connection.
Arrive ==
    /\ pc \notin Returned
    /\ boot >= ConnectedAt
    /\ stats.msgs < MaxMsgs
    /\ \E req \in Requests : inbox' = Append(inbox, req)
    /\ stats' = Bump("msgs")
    /\ UNCHANGED <<storeVars, deviceVars, histVars, threadVars, pc, boot, events, timer_count, tick,
                   fuzzVars, lvmVars>>

\* poll_ctx.wait() returns the ready tokens; it blocks while there is none.
Wait ==
    /\ pc = "wait"
    /\ ReadySources(timer_count, inbox) # {}
    /\ \E o \in PollOrders(ReadySources(timer_count, inbox)) : events' = o
    /\ pc' = "dispatch"
    /\ UNCHANGED <<storeVars, deviceVars, histVars, threadVars, boot, timer_count, inbox, stats, tick,
                   fuzzVars, lvmVars>>

\* `poll_ctx.wait()?` returns an error: service_main returns it.
WaitFail ==
    /\ pc = "wait"
    /\ pc' = "wait_failed"
    /\ UNCHANGED <<storeVars, deviceVars, histVars, threadVars, boot, events, timer_count, inbox, stats,
                   tick,
                   fuzzVars, lvmVars>>

\* The for loop over the poll result: the next event's arm, or back to wait.
Dispatch ==
    /\ pc = "dispatch"
    /\ IF events = <<>>
       THEN /\ pc' = "wait"
            /\ UNCHANGED <<events, stats, tick>>
       ELSE /\ events' = Tail(events)
            /\ IF Head(events) = "TimerMsg"
               THEN /\ pc' = TimerMsgEntry
                    /\ stats' = Bump("timer_events")
                    /\ tick' = NoTick(tick.sample)
               ELSE /\ pc' = "dbus"
                    /\ UNCHANGED <<stats, tick>>
    /\ UNCHANGED <<storeVars, deviceVars, histVars, threadVars, boot, timer_count, inbox,
                   fuzzVars, lvmVars>>

\* check_timer.wait(): reads the expiration count, which resets it.
TimerDrain ==
    /\ pc = "drain"
    /\ \E ok \in BOOLEAN :
          /\ pc' = AfterDrain(ok)
          /\ timer_count' = IF ok THEN 0 ELSE timer_count
          /\ stats' = IF ok THEN Bump("drains") ELSE stats
    /\ UNCHANGED <<storeVars, deviceVars, histVars, threadVars, boot, events, inbox, tick,
                   fuzzVars, lvmVars>>

\* memory::get_memory_pressure_status_chrome().
TimerSample ==
    /\ pc = "sample"
    /\ \E ok \in BOOLEAN :
          /\ pc' = AfterSample(ok)
          /\ stats' = [stats EXCEPT !.samples = @ + 1,
                                    !.samples_ok = IF ok THEN @ + 1 ELSE @]
          /\ tick' = [tick EXCEPT !.sample = IF ok THEN "ok" ELSE "failed",
                                  !.samples = @ + 1]
    /\ UNCHANGED <<storeVars, deviceVars, histVars, threadVars, boot, events, timer_count, inbox,
                   fuzzVars, lvmVars>>

\* send_pressure_chrome_signal: one conn.send, whose error is logged.
TimerSend ==
    /\ pc = "send"
    /\ pc' = "dispatch"
    /\ stats' = Bump("broadcasts")
    /\ tick' = [tick EXCEPT !.sent = @ + 1]
    /\ UNCHANGED <<storeVars, deviceVars, histVars, threadVars, boot, events, timer_count, inbox,
                   fuzzVars, lvmVars>>

\* conn.watch_handle: the transport dispatches its next request to the handler.
DBusHandle ==
    /\ pc = "dbus"
    /\ inbox # <<>>
    /\ LET req == Head(inbox)
       IN \/ /\ req.op = "SetGameMode"
             /\ \E r \in {SetGameModeHandler(poisoned, req.argOk, req.byte, GAME_MODE)} :
                   /\ GAME_MODE' = r.cell
                   /\ last' = Call("SetGameMode", req.byte,
                                   IF req.argOk THEN "u8" ELSE "bad", r.ok, 0, "",
                                   r.stored, NoPrev)
                   /\ game_req' = IF r.ok THEN [set |-> TRUE, byte |-> req.byte]
                                  ELSE game_req
          \/ /\ req.op = "GetGameMode"
             /\ \E r \in {GetGameModeHandler(poisoned, GAME_MODE)} :
                   last' = Call("GetGameMode", 0, "", r.ok, r.val, "", FALSE, Prev)
             /\ UNCHANGED <<GAME_MODE, game_req>>
          \/ /\ req.op = "GetAvailableMemoryKB"
             /\ \E memOk \in BOOLEAN :
                   last' = Call(req.op, 0, "", get_available_memory_kb(memOk).ok, 0, "",
                                FALSE, NoPrev)
             /\ UNCHANGED <<GAME_MODE, game_req>>
          \/ /\ req.op = "GetForegroundAvailableMemoryKB"
             /\ \E memOk \in BOOLEAN :
                   last' = Call(req.op, 0, "", get_foreground_available_memory_kb(memOk).ok,
                                0, "", FALSE, NoPrev)
             /\ UNCHANGED <<GAME_MODE, game_req>>
          \/ /\ req.op = "GetMemoryMarginsKB"
             /\ last' = Call(req.op, 0, "", get_memory_margins_kb.ok, 0, "", FALSE, NoPrev)
             /\ UNCHANGED <<GAME_MODE, game_req>>
    /\ inbox' = Tail(inbox)
    /\ stats' = Bump("handled")
    /\ UNCHANGED <<RTC_AUDIO_ACTIVE, FULLSCREEN_VIDEO, poisoned, deviceVars, oplog,
                   policy_ok, pc, boot, events, timer_count, tick, threadVars,
                   fuzzVars, lvmVars>>

\* conn.watch_handle has no further item: the arm ends.
DBusDone ==
    /\ pc = "dbus"
    /\ inbox = <<>>
    /\ pc' = "dispatch"
    /\ UNCHANGED <<storeVars, deviceVars, histVars, threadVars, boot, events, timer_count, inbox, stats,
                   tick,
                   fuzzVars, lvmVars>>

NextReactor ==
    \/ Startup
    \/ Tick
    \/ Arrive
    \/ Wait
    \/ WaitFail
    \/ Dispatch
    \/ TimerDrain
    \/ TimerSample
    \/ TimerSend
    \/ DBusHandle
    \/ DBusDone

\* service_main on a machine without GT card directories.
InitService == Init /\ ncards = 0

SpecReactor == InitService /\ [][NextReactor]_vars

\* ------------------------------------------------ card directories change
\* The glob of set_gt_boost_freq_mhz is evaluated at every call, on the
\* directories that exist then. A card directory appears after the ones there
\* are (the glob yields the paths in alphabetical order), with its three GT
\* files (min "300", max "900").
CardAdded ==
    /\ ncards < MaxCards
    /\ gt_min' = [gt_min EXCEPT ![ncards + 1] = "300"]
    /\ gt_max' = [gt_max EXCEPT ![ncards + 1] = "900"]
    /\ ncards' = ncards + 1
    /\ gt_boost' = [gt_boost EXCEPT ![ncards + 1] = BoostInitial]
    /\ last' = Call("card added", 0, "", TRUE, 0, "", FALSE, NoPrev)
    /\ oplog' = <<>>
    /\ UNCHANGED <<storeVars, epp, policy_ok, game_req, reactorVars, threadVars,
                   fuzzVars, lvmVars>>

\* The card directory enumerated last disappears with its files.
CardRemoved ==
    /\ ncards > 0
    /\ ncards' = ncards - 1
    /\ gt_min' = [gt_min EXCEPT ![ncards] = NoFile]
    /\ gt_max' = [gt_max EXCEPT ![ncards] = NoFile]
    /\ gt_boost' = [gt_boost EXCEPT ![ncards] = NoFile]
    /\ last' = Call("card removed", 0, "", TRUE, 0, "", FALSE, NoPrev)
    /\ oplog' = <<>>
    /\ UNCHANGED <<storeVars, epp, policy_ok, game_req, reactorVars, threadVars,
                   fuzzVars, lvmVars>>

NextCards ==
    \/ SetRtcAudioActive
    \/ CardAdded
    \/ CardRemoved

SpecCards == Init /\ [][NextCards]_vars

\* ------------------------------------------------------ cros-fuzz: FuzzRng
\* size_of::<u32>() and size_of::<u64>().
U32Size == 4
U64Size == 8
\* What a destination slice holds before a call (0x2c in tests::fill_bytes).
JunkByte == 44

\* The byte orders from_ne_bytes may have, by the target of the build.
Targets == {"little-endian", "big-endian"}

\* std::cmp::min.
Min(a, b) == IF a < b THEN a ELSE b

Reverse(s) == [i \in 1..Len(s) |-> s[Len(s) + 1 - i]]
Zeroes(n) == [i \in 1..n |-> 0]

\* u32::from_ne_bytes / u64::from_ne_bytes: the integer whose bytes in the
\* target's order are the given ones, as its base-256 digits from the most
\* significant to the least.
from_ne_bytes(bytes, target) ==
    IF target = "little-endian" THEN Reverse(bytes) ELSE bytes

\* u32::to_ne_bytes / u64::to_ne_bytes (tests::gen_u32, tests::gen_u64).
to_ne_bytes(digits, target) ==
    IF target = "little-endian" THEN Reverse(digits) ELSE digits

\* Mutant: the part of dest past the copied bytes is left as it is.
fill_bytes_NoZero(b, d) ==
    LET amt == Min(Len(b), Len(d))
    IN [buf  |-> SubSeq(b, amt + 1, Len(b)),
        dest |-> [i \in 1..Len(d) |-> IF i <= amt THEN b[i] ELSE d[i]]]

\* FuzzRng::fill_bytes: split the input at amt, copy the first part to the
\* front of dest, keep the second part, and zero the rest of dest.
fill_bytes(b, d) ==
    LET amt    == Min(Len(b), Len(d))
        a      == SubSeq(b, 1, amt)
        copied == [i \in 1..Len(d) |-> IF i <= amt THEN a[i] ELSE d[i]]
    IN [buf  |-> SubSeq(b, amt + 1, Len(b)),
        dest |-> IF amt < Len(d)
                 THEN [i \in 1..Len(d) |-> IF i > amt THEN 0 ELSE copied[i]]
                 ELSE copied]

\* Mutant: with too little input the call hands out what there is and fails.
try_fill_bytes_Partial(b, d) ==
    [ok |-> Len(b) >= Len(d), buf |-> fill_bytes(b, d).buf, dest |-> fill_bytes(b, d).dest]

\* FuzzRng::try_fill_bytes: fill_bytes when the input is long enough, or an
\* error.
try_fill_bytes(b, d) ==
    IF Len(b) >= Len(d)
    THEN [ok |-> TRUE, buf |-> fill_bytes(b, d).buf, dest |-> fill_bytes(b, d).dest]
    ELSE [ok |-> FALSE, buf |-> b, dest |-> d]

\* FuzzRng::next_u32 / next_u64: fill_bytes on a zeroed array of the integer's
\* size, then from_ne_bytes.
next_uint(b, size, target) ==
    LET r == fill_bytes(b, Zeroes(size))
    IN [buf |-> r.buf, dest |-> r.dest, val |-> from_ne_bytes(r.dest, target)]
next_u32(b, target) == next_uint(b, U32Size, target)
next_u64(b, target) == next_uint(b, U64Size, target)

\* The inputs a FuzzRng is made from.
Inputs == UNION {[1..n -> Bytes] : n \in 0..MaxInput}

\* What the record of a call keeps of the call before it.
Before == [op |-> rng.op, ok |-> rng.ok]

\* The record of a call: its operation, the length of its destination, its
\* result and value, the input left before it, the bytes handed out so far.
RngCall(op, n, ok, val, r) ==
    [input |-> rng.input, target |-> rng.target, op |-> op, n |-> n, ok |-> ok,
     val |-> val, pre |-> buf,
     out |-> rng.out \o SubSeq(r.dest, 1, Len(buf) - Len(r.buf)), prev |-> Before]

\* FuzzRng::new(input), on a build for some target.
InitFuzzRng ==
    \E input \in Inputs, target \in Targets :
       /\ buf = input
       /\ dest = <<>>
       /\ rng = [input |-> input, target |-> target, op |-> "new", n |-> 0, ok |-> TRUE,
                 val |-> <<>>, pre |-> input, out |-> <<>>,
                 prev |-> [op |-> "none", ok |-> TRUE]]

\* rng.fill_bytes(&mut dest) with a destination of n bytes.
FillBytes ==
    \E n \in 0..MaxDest :
       \E r \in {fill_bytes(buf, [i \in 1..n |-> JunkByte])} :
          /\ buf' = r.buf
          /\ dest' = r.dest
          /\ rng' = RngCall("fill_bytes", n, TRUE, <<>>, r)
          /\ UNCHANGED <<storeVars, deviceVars, histVars, reactorVars, threadVars, lvmVars>>

\* rng.try_fill_bytes(&mut dest) with a destination of n bytes.
TryFillBytes ==
    \E n \in 0..MaxDest :
       \E r \in {try_fill_bytes(buf, [i \in 1..n |-> JunkByte])} :
          /\ buf' = r.buf
          /\ dest' = r.dest
          /\ rng' = RngCall("try_fill_bytes", n, r.ok, <<>>, r)
          /\ UNCHANGED <<storeVars, deviceVars, histVars, reactorVars, threadVars, lvmVars>>

\* rng.next_u32().
NextU32 ==
    \E r \in {next_u32(buf, rng.target)} :
       /\ buf' = r.buf
       /\ dest' = r.dest
       /\ rng' = RngCall("next_u32", U32Size, TRUE, r.val, r)
       /\ UNCHANGED <<storeVars, deviceVars, histVars, reactorVars, threadVars, lvmVars>>

\* rng.next_u64().
NextU64 ==
    \E r \in {next_u64(buf, rng.target)} :
       /\ buf' = r.buf
       /\ dest' = r.dest
       /\ rng' = RngCall("next_u64", U64Size, TRUE, r.val, r)
       /\ UNCHANGED <<storeVars, deviceVars, histVars, reactorVars, threadVars, lvmVars>>

NextFuzz ==
    \/ FillBytes
    \/ TryFillBytes
    \/ NextU32
    \/ NextU64

\* A fuzz target's process: one FuzzRng, no daemon state in use.
InitFuzz == InitResourced /\ ncards = 0 /\ InitFuzzRng /\ NoVolumeGroup

SpecFuzz == InitFuzz /\ [][NextFuzz]_vars

\* ------------------------------------------- hiberman: ActivatedVolumeGroup
\* What Command::output() of a vgchange gives: the error of a process that
\* could not be run, or the output of one that ran and failed or succeeded
\* (the code does not look at the exit status).
CmdOutcomes == {"spawn error", "exit failure", "done"}

\* Mutant: the name is kept also when the device existed.
ActivatedVolumeGroup_new_KeepsName(exists, cmd) ==
    IF exists
    THEN [ok |-> TRUE, vg_name |-> "Some", ay |-> "not run", device |-> exists]
    ELSE IF cmd = "spawn error"
    THEN [ok |-> FALSE, vg_name |-> "", ay |-> cmd, device |-> exists]
    ELSE [ok |-> TRUE, vg_name |-> "Some", ay |-> cmd, device |-> cmd = "done"]

\* ActivatedVolumeGroup::new: when /dev/<vg>/unencrypted exists the object
\* keeps no name; otherwise `vgchange -ay` is run, an error of running it
\* returns from new, and the object keeps the name.
ActivatedVolumeGroup_new(exists, cmd) ==
    IF exists
    THEN [ok |-> TRUE, vg_name |-> "None", ay |-> "not run", device |-> exists]
    ELSE IF cmd = "spawn error"
    THEN [ok |-> FALSE, vg_name |-> "", ay |-> cmd, device |-> exists]
    ELSE [ok |-> TRUE, vg_name |-> "Some", ay |-> cmd, device |-> cmd = "done"]

\* Mutant: the drop runs the deactivation whatever the object keeps.
ActivatedVolumeGroup_drop_Always(vg_name, exists, cmd) ==
    [an |-> cmd, device |-> IF cmd = "done" THEN FALSE ELSE exists]

\* Drop for ActivatedVolumeGroup: with a name kept, `vgchange -an` is run and
\* its result logged.
ActivatedVolumeGroup_drop(vg_name, exists, cmd) ==
    IF vg_name = "Some"
    THEN [an |-> cmd, device |-> IF cmd = "done" THEN FALSE ELSE exists]
    ELSE [an |-> "not run", device |-> exists]

\* activate_physical_vg: Ok(None) without the stateful-rw snapshot or without
\* a volume group name, an error when the partition cannot be found or new
\* fails, Ok(Some(guard)) otherwise.
activate_physical_vg(env, exists) ==
    IF ~env.snapshot THEN [result |-> "Ok(None)", new |-> FALSE]
    ELSE IF ~env.partition THEN [result |-> "Err", new |-> FALSE]
    ELSE IF ~env.vg_name THEN [result |-> "Ok(None)", new |-> FALSE]
    ELSE IF ActivatedVolumeGroup_new(exists, env.cmd).ok
    THEN [result |-> "Ok(Some)", new |-> TRUE]
    ELSE [result |-> "Err", new |-> TRUE]

\* The record of a call of activate_physical_vg and of the guard it returned:
\* whether the device existed at the call, the name the guard keeps, the
\* vgchange -ay and -an commands attempted for it and their outcomes, and
\* whether the guard is alive.
VgCall(r, exists, g) ==
    [result |-> r.result, existed |-> exists,
     vg_name |-> IF r.new THEN g.vg_name ELSE "",
     ay |-> IF r.new THEN g.ay ELSE "not run",
     activations |-> IF r.new /\ g.ay # "not run" THEN 1 ELSE 0,
     an |-> "not run", deactivations |-> 0,
     live |-> r.result = "Ok(Some)"]

\* A call of activate_physical_vg.
ActivatePhysicalVg ==
    /\ Len(avgs) < MaxVgCalls
    /\ \E snapshot \in BOOLEAN, partition \in BOOLEAN, name \in BOOLEAN, cmd \in CmdOutcomes :
          /\ (~snapshot => partition /\ name)
          /\ (~partition => name)
          /\ (~(snapshot /\ partition /\ name) \/ vg_device => cmd = "done")
          /\ \E r \in {activate_physical_vg([snapshot |-> snapshot, partition |-> partition,
                                             vg_name |-> name, cmd |-> cmd], vg_device)},
                g \in {ActivatedVolumeGroup_new(vg_device, cmd)} :
                /\ avgs' = Append(avgs, VgCall(r, vg_device, g))
                /\ vg_device' = IF r.new THEN g.device ELSE vg_device
    /\ UNCHANGED <<storeVars, deviceVars, histVars, reactorVars, threadVars, fuzzVars>>

\* A guard goes out of scope: its drop runs, once.
DropVolumeGroup ==
    \E k \in DOMAIN avgs, cmd \in CmdOutcomes :
       /\ avgs[k].live
       /\ (avgs[k].vg_name # "Some" => cmd = "done")
       /\ \E d \in {ActivatedVolumeGroup_drop(avgs[k].vg_name, vg_device, cmd)} :
             /\ avgs' = [avgs EXCEPT ![k] =
                            [@ EXCEPT !.live = FALSE,
                                      !.an = d.an,
                                      !.deactivations = IF d.an # "not run" THEN @ + 1 ELSE @]]
             /\ vg_device' = d.device
    /\ UNCHANGED <<storeVars, deviceVars, histVars, reactorVars, threadVars, fuzzVars>>

\* Another process activates or deactivates the volume group.
VgChangedElsewhere ==
    /\ vg_device' = ~vg_device
    /\ UNCHANGED <<storeVars, deviceVars, histVars, reactorVars, threadVars, fuzzVars, avgs>>

NextLvm ==
    \/ ActivatePhysicalVg
    \/ DropVolumeGroup
    \/ VgChangedElsewhere

\* hiberman's process: no guard yet, the volume group active or not.
InitLvm ==
    /\ InitResourced
    /\ ncards = 0
    /\ NoFuzzRng
    /\ vg_device \in BOOLEAN
    /\ avgs = <<>>

SpecLvm == InitLvm /\ [][NextLvm]_vars

\* ------------------------------------------------------------------ claims
Setters == {"SetGameMode", "set_rtc_audio_active", "set_fullscreen_video"}

\* The EPP value the policy prescribes for a pair of modes.
EppExpected(rtc, fsv) ==
    IF rtc = "Active" \/ fsv = "Active" THEN "179" ELSE "balance_performance"

\* The positions of the most recent call's log that hold an operation of kind on at.
LogAt(kind, at) ==
    {k \in DOMAIN oplog : oplog[k].kind = kind /\ oplog[k].at = at}
LogOf(kind) ==
    {k \in DOMAIN oplog : oplog[k].kind = kind}

\* C1: a GetGameMode request that succeeds returns the byte of the most recent
\* SetGameMode request that succeeded (0 or 1), whatever other calls came
\* between the two.
C1_SetThenGetGameMode ==
    (last.op = "GetGameMode" /\ last.ok /\ game_req.set)
        => (game_req.byte \in {0, 1} /\ last.ret_u8 = game_req.byte)

C1_Witness ==
    /\ last.op = "GetGameMode"
    /\ last.ok
    /\ game_req = [set |-> TRUE, byte |-> 1]
    /\ last.ret_u8 = 1
    /\ last.after.op # "SetGameMode"

\* C2: a SetGameMode request whose byte is neither 0 nor 1 returns an error,
\* leaves the GameMode cell as it was and never calls the store's setter.
C2_InvalidByteRejected ==
    (last.op = "SetGameMode" /\ last.mode = "u8" /\ last.byte \notin {0, 1})
        => (~last.ok /\ ~last.stored /\ GAME_MODE = last.pre[1])

C2_Witness ==
    /\ last.op = "SetGameMode"
    /\ last.mode = "u8"
    /\ last.byte = 2
    /\ ~last.ok
    /\ GAME_MODE = "Borealis"

\* C3: for each of the four pairs of modes the re-evaluation chooses "179" iff
\* one of them is Active and "balance_performance" otherwise, and whenever the
\* most recent RTC / fullscreen setter call succeeded every EPP file holds the
\* value of the current pair.
C3_EppFollowsBothModes ==
    /\ \A rtc \in Modes, fsv \in Modes :
          update_epp_if_needed(poisoned, rtc, fsv, epp, 0).epp
              = [i \in Policies |-> EppExpected(rtc, fsv)]
    /\ policy_ok = "ok"
          => \A i \in Policies : epp[i] = EppExpected(RTC_AUDIO_ACTIVE, FULLSCREEN_VIDEO)

C3_Witness ==
    /\ policy_ok = "ok"
    /\ last.op = "set_rtc_audio_active"
    /\ last.mode = "Inactive"
    /\ FULLSCREEN_VIDEO = "Active"
    /\ \A i \in Policies : epp[i] = "179"

\* C4 (as claimed): every EPP value a call of set_rtc_audio_active or
\* set_fullscreen_video writes is the value of both cells as they stand.
C4_EveryEppWriteFromBothCells ==
    last.op \in {"set_rtc_audio_active", "set_fullscreen_video"}
        => \A k \in LogOf("write_epp") :
              oplog[k].val = EppExpected(RTC_AUDIO_ACTIVE, FULLSCREEN_VIDEO)

\* C5 (as claimed): when every device operation succeeds, set_rtc_audio_active(Active)
\* writes "179" exactly once to each EPP file and the min frequency exactly once
\* to the boost file.
C5_OneWritePerFile ==
    (/\ last.op = "set_rtc_audio_active"
     /\ last.mode = "Active"
     /\ \A k \in DOMAIN oplog : oplog[k].ok)
        => /\ \A i \in Policies :
                 /\ Cardinality(LogAt("write_epp", i)) = 1
                 /\ \A k \in LogAt("write_epp", i) : oplog[k].val = "179"
           /\ Cardinality(LogOf("write_boost")) = 1
           /\ \A k \in LogOf("write_boost") : oplog[k].val = gt_min[oplog[k].at]

\* C6: a set_rtc_audio_active(m) in which an EPP write fails returns an error
\* and leaves m in the cell, and a get_rtc_audio_active made after it (before
\* any other setter call) returns m.
C6_EppFailureKeepsMode ==
    /\ (last.op = "set_rtc_audio_active" /\ EppWriteFailed)
          => (~last.ok /\ RTC_AUDIO_ACTIVE = last.mode)
    /\ (last.op = "get_rtc_audio_active" /\ last.after.op = "set_rtc_audio_active"
            /\ last.after.eppfail)
          => (~last.after.ok /\ last.ok /\ last.ret_mode = last.after.mode)

C6_Witness ==
    /\ last.op = "get_rtc_audio_active"
    /\ last.after.op = "set_rtc_audio_active"
    /\ last.after.eppfail
    /\ last.after.mode = "Active"
    /\ last.ret_mode = "Active"
    /\ \E i \in Policies : epp[i] # "179"

\* C7 (as claimed): a Set request that returns an error leaves all three cells
\* as they were before it.
C7_FailedSetChangesNothing ==
    (last.op \in Setters /\ ~last.ok) => Cells = last.pre

\* C7 (amended): a SetGameMode request that returns an error leaves all three
\* cells as they were; a set_rtc_audio_active or set_fullscreen_video call that
\* returns an error after a device failure leaves the two other cells as they
\* were and the requested mode in its own cell.
C7_FailedSetKeepsOtherCells ==
    /\ (last.op = "SetGameMode" /\ ~last.ok) => Cells = last.pre
    /\ (last.op = "set_rtc_audio_active" /\ ~last.ok /\ oplog # <<>>)
          => Cells = <<last.pre[1], last.mode, last.pre[3]>>
    /\ (last.op = "set_fullscreen_video" /\ ~last.ok /\ oplog # <<>>)
          => Cells = <<last.pre[1], last.pre[2], last.mode>>

C7_Witness ==
    /\ last.op = "set_fullscreen_video"
    /\ ~last.ok
    /\ last.mode = "Active"
    /\ last.pre[3] = "Inactive"
    /\ FULLSCREEN_VIDEO = "Active"

\* C8 (as claimed): when the frequency file the mode needs cannot be read, the
\* boost update returns an error and writes nothing, and no boost file ever
\* holds the sentinel text.
C8_SentinelNeverWritten ==
    /\ \A d \in Dirs : gt_boost[d] \notin {SentinelMin, SentinelMax}
    /\ (/\ last.op = "set_rtc_audio_active"
        /\ \E j \in LogOf(IF last.mode = "Active" THEN "read_min" ELSE "read_max") :
              ~oplog[j].ok)
          => (~last.ok /\ \A k \in LogOf("write_boost") : ~oplog[k].ok)

\* C9: when both frequency reads succeed, the value written to the boost file is
\* the content of the min file for Active and of the max file for Inactive.
C9_BoostFromMinOrMax ==
    last.op = "set_rtc_audio_active"
        => \A k \in LogOf("write_boost") :
              (\A j \in LogOf("read_min") \cup LogOf("read_max") : oplog[j].ok)
                 => LET card == oplog[k].at
                        want == IF last.mode = "Active" THEN gt_min[card] ELSE gt_max[card]
                    IN /\ want \in Freqs
                       /\ oplog[k].val = want
                       /\ oplog[k].ok => gt_boost[card] = want

C9_Witness ==
    /\ last.op = "set_rtc_audio_active"
    /\ last.mode = "Inactive"
    /\ \A k \in DOMAIN oplog : oplog[k].ok
    /\ ncards = MaxCards
    /\ gt_min[ncards] = "300"
    /\ gt_max[ncards] = "900"
    /\ gt_boost[ncards] = "900"

\* What the loop does with timer events: the sample of an event is taken only
\* after that event's drain; every drain that succeeds is followed by exactly
\* one sample and every sample that succeeds by exactly one broadcast attempt (a
\* failed one by none). The event whose drain fails gets no sample:
\* service_main returns there.
TimerEventOrder ==
    /\ pc = "sample" => stats.drains = stats.timer_events
    /\ stats.samples + (IF pc = "sample" THEN 1 ELSE 0) = stats.drains
    /\ stats.samples_ok <= stats.samples
    /\ stats.broadcasts + (IF pc = "send" THEN 1 ELSE 0) = stats.samples_ok
    /\ stats.timer_events
          = stats.drains + (IF pc \in {"drain", "drain_failed"} THEN 1 ELSE 0)

\* C10 (as claimed): for every timer event the reactor handles, the drain comes
\* first, then exactly one sample and at most one broadcast attempt: once an
\* event's handling is over, N handled timer events have had N samples, each
\* after its own drain, and as many broadcast attempts as samples succeeded.
C10_EveryTimerEventSampled ==
    /\ pc = "sample" => stats.drains = stats.timer_events
    /\ stats.samples + (IF pc \in {"drain", "sample"} THEN 1 ELSE 0) = stats.timer_events
    /\ stats.samples_ok <= stats.samples
    /\ stats.broadcasts + (IF pc = "send" THEN 1 ELSE 0) = stats.samples_ok

\* Three timer events and no request: three drains, samples and broadcasts.
ThreeTicksThreeBroadcasts ==
    /\ pc = "wait"
    /\ stats.msgs = 0
    /\ stats.ticks = MaxTicks
    /\ stats.timer_events = MaxTicks
    /\ stats.drains = MaxTicks
    /\ stats.samples = MaxTicks
    /\ stats.broadcasts = MaxTicks

\* C11: the step in which the sample of a timer event fails sends nothing and
\* goes on with the for loop; as long as that event is the one handled last
\* there is no further sample and no broadcast; a sample that succeeds is
\* followed by the send of one broadcast, also when the sample of the timer
\* event before it failed.
C11_FailedSampleSkipsBroadcast ==
    [][/\ (pc = "sample" /\ tick'.sample = "failed") => pc' = "dispatch"
       /\ tick'.sample = "failed" => (tick'.sent = 0 /\ tick'.samples = 1 /\ pc' # "send")
       /\ (tick.sample = "failed" /\ tick'.sample = "failed")
             => (stats'.samples = stats.samples /\ stats'.broadcasts = stats.broadcasts)
       /\ (pc = "sample" /\ tick'.sample = "ok") => pc' = "send"
       /\ (pc = "send" /\ pc' # "send")
             => (tick'.sent = 1 /\ stats'.broadcasts = stats.broadcasts + 1)]_vars

\* The sample of one timer event failed and the reactor went on: the next
\* timer event was sampled with success and its broadcast sent.
C11_Witness ==
    /\ tick.prev = "failed"
    /\ tick.sample = "ok"
    /\ tick.sent = 1
    /\ stats.samples = 2
    /\ stats.broadcasts = 1
    /\ pc = "wait"

\* C12 (as claimed): once the loop has been entered, service_main does not
\* return, whatever fails inside an iteration.
C12_LoopNeverTerminates ==
    boot = Len(StartupSteps) => pc \notin Returned

\* C13: a call made while the lock of its cell is poisoned returns an error,
\* leaves the cell as it was and writes no device file: (1) for the calls the
\* store has served since RTC_AUDIO_ACTIVE was poisoned, its getter, its setter
\* and the re-evaluation of set_fullscreen_video; (2) for every set of poisoned
\* locks, every mode and every cell value, each getter, each setter and
\* update_epp_if_needed as functions of the lock's state.
C13_PoisonedLockIsAnError ==
    /\ "RTC_AUDIO_ACTIVE" \in poisoned =>
          /\ last.op = "get_rtc_audio_active" => ~last.ok
          /\ last.op = "set_rtc_audio_active"
                => (~last.ok /\ Cells = last.pre /\ oplog = <<>>)
          /\ last.op = "set_fullscreen_video"
                => (~last.ok /\ RTC_AUDIO_ACTIVE = last.pre[2] /\ oplog = <<>>)
    /\ \A p \in SUBSET CellNames, m \in Modes, rtc \in Modes, fsv \in Modes :
          /\ "GAME_MODE" \in p =>
                /\ \A g \in GameModes, c \in GameModes :
                      set_game_mode(p, g, c) = [cell |-> c, ok |-> FALSE]
                /\ ~get_game_mode(p, GAME_MODE).ok
                /\ ~GetGameModeHandler(p, GAME_MODE).ok
          /\ "RTC_AUDIO_ACTIVE" \in p =>
                /\ ~get_rtc_audio_active(p, rtc).ok
                /\ \A f \in 0..NumPolicies :
                      LET r == set_rtc_audio_active(p, m, rtc, fsv, Devices,
                                  [f1 |-> f, minOk |-> TRUE, maxOk |-> TRUE,
                                   writeOk |-> TRUE, f2 |-> 0])
                      IN ~r.ok /\ r.cell = rtc /\ r.epp = epp /\ r.boost = gt_boost
                                /\ r.log = <<>>
          /\ "FULLSCREEN_VIDEO" \in p =>
                /\ ~get_fullscreen_video(p, fsv).ok
                /\ \A f \in 0..NumPolicies :
                      set_fullscreen_video(p, m, rtc, fsv, epp, f)
                          = [cell |-> fsv, epp |-> epp, log |-> <<>>, ok |-> FALSE]
          /\ p \cap {"RTC_AUDIO_ACTIVE", "FULLSCREEN_VIDEO"} # {} =>
                \A f \in 0..NumPolicies :
                   update_epp_if_needed(p, rtc, fsv, epp, f)
                       = [epp |-> epp, log |-> <<>>, ok |-> FALSE]

\* With RTC_AUDIO_ACTIVE poisoned, set_rtc_audio_active of the other mode
\* returned an error and the cell kept the mode the panicking call stored.
C13_Witness ==
    /\ "RTC_AUDIO_ACTIVE" \in poisoned
    /\ last.op = "set_rtc_audio_active"
    /\ ~last.ok
    /\ last.mode = "Inactive"
    /\ RTC_AUDIO_ACTIVE = "Active"
    /\ oplog = <<>>

\* C14: a SetGameMode request (and the set_game_mode it calls) leaves the
\* RTCAudioActive and FullscreenVideo cells, every EPP file and every GT file
\* as they were and performs no device operation: there is no re-evaluation.
C14_SetGameModeFrame ==
    [][last'.op = "SetGameMode"
          => /\ UNCHANGED <<RTC_AUDIO_ACTIVE, FULLSCREEN_VIDEO, poisoned, deviceVars>>
             /\ oplog' = <<>>
             /\ last'.ok => GAME_MODE' = GameModeFromU8(last'.byte)
             /\ ~last'.ok => GAME_MODE' = GAME_MODE]_vars

\* SetGameMode(1) succeeded while the EPP files were not what the policy
\* prescribes for the two cells (an earlier write had failed): they stayed so.
C14_Witness ==
    /\ last.op = "SetGameMode"
    /\ last.ok
    /\ GAME_MODE = "Borealis"
    /\ FULLSCREEN_VIDEO = "Active"
    /\ epp[1] = "179"
    /\ epp[NumPolicies] = EppInitial

\* C15: until every start-up step has succeeded service_main is still starting
\* or has returned the error of the step that failed: no timer event has been
\* dispatched or drained, no sample taken, no broadcast sent and no request
\* handled; and service_main returns that way only before the loop.
C15_StartupFailureBeforeLoop ==
    /\ boot < Len(StartupSteps) =>
          /\ pc \in {"boot", "failed"}
          /\ events = <<>>
          /\ stats.timer_events = 0
          /\ stats.drains = 0
          /\ stats.samples = 0
          /\ stats.broadcasts = 0
          /\ stats.handled = 0
    /\ pc = "failed" => boot < Len(StartupSteps)

\* Building the wait set failed after the timer was armed: the timer had
\* expired and a request had arrived, and none of them was handled.
C15_Witness ==
    /\ pc = "failed"
    /\ boot = ArmedAt
    /\ timer_count > 0
    /\ inbox # <<>>
    /\ stats.samples = 0
    /\ stats.handled = 0

\* The threads of S wait for locks that threads of S hold.
WaitsFor(t) == IF th[t] # Idle /\ StepOf(t).do = "lock" THEN StepOf(t).cell ELSE ""
Deadlocked(S) ==
    /\ S # {}
    /\ \A t \in S : WaitsFor(t) # "" /\ holder[WaitsFor(t)] \in S

\* The threads that wait for a lock some thread holds; threads that wait for
\* each other are among them.
Blocked ==
    {t \in Threads : WaitsFor(t) # "" /\ holder[WaitsFor(t)] # NoThread}

\* C16: no thread requests the RTC_AUDIO_ACTIVE lock while it holds the
\* FULLSCREEN_VIDEO lock (so the two are only ever taken RTC first), no thread
\* requests a lock it holds, and no set of threads wait for each other.
C16_LockOrderNoDeadlock ==
    /\ \A t \in Threads :
          /\ WaitsFor(t) = "RTC_AUDIO_ACTIVE" => holder["FULLSCREEN_VIDEO"] # t
          /\ WaitsFor(t) # "" => holder[WaitsFor(t)] # t
          /\ WaitsFor(t) = "GAME_MODE" => \A c \in CellNames : holder[c] # t
          /\ holder["GAME_MODE"] = t => \A c \in CellNames \ {"GAME_MODE"} : holder[c] # t
    /\ \A S \in SUBSET Blocked : ~Deadlocked(S)

\* One thread holds RTC_AUDIO_ACTIVE inside update_epp_if_needed and waits
\* for FULLSCREEN_VIDEO, which another thread holds in set_fullscreen_video,
\* about to store.
C16_Witness ==
    \E t \in Threads, u \in Threads :
       /\ holder["RTC_AUDIO_ACTIVE"] = t
       /\ WaitsFor(t) = "FULLSCREEN_VIDEO"
       /\ holder["FULLSCREEN_VIDEO"] = u
       /\ u # t
       /\ th[u].op = "set_fullscreen_video"
       /\ StepOf(u).do = "store"

\* Thread u is in set_rtc_audio_active / set_fullscreen_video between its store
\* of cell c and the end of its re-evaluation.
InWindow(u, c) ==
    /\ th[u] # Idle
    /\ \E i \in 1..(th[u].at - 1) :
          Program(th[u].op)[i] = Do("store", c)
    /\ \E j \in th[u].at..Len(Program(th[u].op)) :
          Program(th[u].op)[j].do = "reeval"

\* Thread t holds the guard of cell c and is about to read or write the cell.
Accessing(t, c) ==
    /\ th[t] # Idle
    /\ holder[c] = t
    /\ StepOf(t).do \in {"store", "read", "reeval_read"}

\* C17 (as claimed): between a thread's store of a cell in set_rtc_audio_active
\* or set_fullscreen_video and the end of the re-evaluation of that call, no
\* other thread reads or writes that cell.
C17_StoreAndReevalAtomic ==
    \A u \in Threads, t \in Threads, c \in {"RTC_AUDIO_ACTIVE", "FULLSCREEN_VIDEO"} :
       (t # u /\ InWindow(u, c)) => ~Accessing(t, c)

\* What the locks do give: a thread reads the two cells for the re-evaluation
\* with both guards held, and stores a cell with that cell's guard held.
AccessUnderGuard ==
    \A t \in Threads :
       th[t] # Idle =>
          /\ StepOf(t).do \in {"reeval_read", "reeval"}
                => (holder["RTC_AUDIO_ACTIVE"] = t /\ holder["FULLSCREEN_VIDEO"] = t)
          /\ StepOf(t).do \in {"store", "read", "set_epp", "set_gt_boost"}
                => holder[StepOf(t).cell] = t

\* C18: every step of a read (GetGameMode request, get_rtc_audio_active,
\* get_fullscreen_video) leaves the three cells, their locks and every device
\* file as they were and performs no device operation; it fails exactly when
\* the cell's lock is poisoned, and when it succeeds the value returned is the
\* one the cell holds.
C18_ReadsChangeNothing ==
    [][last'.op \in Getters
          => /\ UNCHANGED <<storeVars, deviceVars>>
             /\ oplog' = <<>>
             /\ last'.op = "GetGameMode"
                   => /\ last'.ok <=> "GAME_MODE" \notin poisoned
                      /\ last'.ok => last'.ret_u8 = GameModeAsU8(GAME_MODE)
             /\ last'.op = "get_rtc_audio_active"
                   => /\ last'.ok <=> "RTC_AUDIO_ACTIVE" \notin poisoned
                      /\ last'.ok => last'.ret_mode = RTC_AUDIO_ACTIVE
             /\ last'.op = "get_fullscreen_video"
                   => /\ last'.ok <=> "FULLSCREEN_VIDEO" \notin poisoned
                      /\ last'.ok => last'.ret_mode = FULLSCREEN_VIDEO]_vars

\* get_fullscreen_video returned Active while the RTC_AUDIO_ACTIVE lock was
\* poisoned (get_rtc_audio_active fails there) and the EPP files held the
\* value for no Active cell.
C18_Witness ==
    /\ last.op = "get_fullscreen_video"
    /\ last.ok
    /\ last.ret_mode = "Active"
    /\ FULLSCREEN_VIDEO = "Active"
    /\ "RTC_AUDIO_ACTIVE" \in poisoned
    /\ epp[1] = "balance_performance"

\* A read that fails: get_rtc_audio_active on the poisoned lock.
FailedReadReached ==
    /\ last.op = "get_rtc_audio_active"
    /\ ~last.ok
    /\ RTC_AUDIO_ACTIVE = "Active"

\* C19: at every call of set_fullscreen_video, (1) set_epp on the files as
\* they stand, for every value and every position of the first failing write:
\* the writes go to files 1, 2, ... in order and end with the failing one, the
\* result is an error, the files before it hold the new value and the failing
\* file and those after it hold what they held; without a failure every file
\* is written once and the result is Ok; (2) the same for the one set_epp the
\* call makes, on the files themselves.
C19_SetEppFailFast ==
    [][last'.op = "set_fullscreen_video"
          => /\ \A v \in {"179", "balance_performance"}, f \in 0..NumPolicies :
                   LET r == set_epp(epp, v, f)
                       n == IF f = 0 THEN NumPolicies ELSE f
                   IN /\ r.ok <=> f = 0
                      /\ r.log = [i \in 1..n |-> OpRec("write_epp", i, v, i # f)]
                      /\ \A i \in Policies :
                            r.epp[i] = IF f = 0 \/ i < f THEN v ELSE epp[i]
             /\ oplog' # <<>>
                   => LET n == Len(oplog')
                          v == EppExpected(RTC_AUDIO_ACTIVE', FULLSCREEN_VIDEO')
                      IN /\ \A k \in 1..n : /\ oplog'[k].kind = "write_epp"
                                             /\ oplog'[k].at = k
                                             /\ oplog'[k].val = v
                                             /\ k < n => oplog'[k].ok
                         /\ last'.ok <=> oplog'[n].ok
                         /\ last'.ok => n = NumPolicies
                         /\ \A i \in Policies :
                               epp'[i] = IF i < n \/ last'.ok THEN v ELSE epp[i]]_vars

\* set_fullscreen_video(Active): the write of the last EPP file failed; the
\* first file keeps "179" and the last one what it held.
C19_Witness ==
    /\ last.op = "set_fullscreen_video"
    /\ last.mode = "Active"
    /\ ~last.ok
    /\ Len(oplog) = NumPolicies
    /\ ~oplog[NumPolicies].ok
    /\ epp[1] = "179"
    /\ epp[NumPolicies] = "balance_performance"

\* The GT operations of the most recent call.
GtOps == LogOf("read_min") \cup LogOf("read_max") \cup LogOf("write_boost")

\* C20 (as claimed): a set_rtc_audio_active in which an EPP update fails returns
\* an error and has neither read the GT min / max files nor written the GT
\* boost file.
C20_EppFailureSkipsGtBoost ==
    (last.op = "set_rtc_audio_active" /\ EppWriteFailed)
        => (~last.ok /\ GtOps = {})

\* What holds: when the set_epp made before the GT boost update fails (the
\* failing write is among the first NumPolicies operations of the call), the
\* call returns an error and no GT file is read or written; and a call that
\* did reach the GT boost update wrote every EPP file before it.
FirstEppFailureSkipsGtBoost ==
    last.op = "set_rtc_audio_active" =>
       /\ (\E k \in 1..NumPolicies : k \in LogOf("write_epp") /\ ~oplog[k].ok)
             => (~last.ok /\ GtOps = {})
       /\ GtOps # {}
             => \A i \in Policies : i \in LogAt("write_epp", i) /\ oplog[i].ok

\* The failing case: the GT boost file was written and the re-evaluation's
\* EPP write failed afterwards.
GtBoostWrittenBeforeEppFailure ==
    /\ last.op = "set_rtc_audio_active"
    /\ ~last.ok
    /\ EppWriteFailed
    /\ \E k \in LogOf("write_boost") : oplog[k].ok /\ gt_boost[oplog[k].at] = oplog[k].val

\* The positions of a call's log that hold an operation on a GT file.
GtOpsOf(log) ==
    {k \in DOMAIN log : log[k].kind \in {"read_min", "read_max", "write_boost"}}

\* C21: with several card directories the glob loop keeps the one enumerated
\* last, and a call of set_rtc_audio_active that reaches the GT boost update
\* reads min and max once each from that directory as it stands at the call,
\* writes the boost file of that directory once, reads and writes no file of
\* another directory, and does so for the directories that exist at that call,
\* whichever directory an earlier call used.
C21_LastCardOnly ==
    [][/\ \A n \in 2..MaxCards : GlobCard(CardEntries(n), RootDir) = n
       /\ (last'.op = "set_rtc_audio_active" /\ ncards >= 2 /\ GtOpsOf(oplog') # {})
             => /\ \A k \in GtOpsOf(oplog') : oplog'[k].at = ncards
                /\ \A kind \in {"read_min", "read_max", "write_boost"} :
                      Cardinality({k \in DOMAIN oplog' : oplog'[k].kind = kind}) = 1
                /\ \A k \in DOMAIN oplog' :
                      /\ (oplog'[k].kind = "read_min" /\ oplog'[k].ok)
                            => oplog'[k].val = gt_min[ncards]
                      /\ (oplog'[k].kind = "read_max" /\ oplog'[k].ok)
                            => oplog'[k].val = gt_max[ncards]
                      /\ (oplog'[k].kind = "write_boost" /\ oplog'[k].ok)
                            => gt_boost'[ncards] = oplog'[k].val
                /\ \A d \in Dirs \ {ncards} : gt_boost'[d] = gt_boost[d]
                /\ UNCHANGED <<ncards, gt_min, gt_max>>]_vars

\* A call wrote the boost file of card 1 when it was the only card; a second
\* card appeared and the next call wrote the boost file of that one and left
\* card 1 alone.
C21_Witness ==
    /\ last.op = "set_rtc_audio_active"
    /\ last.ok
    /\ last.mode = "Active"
    /\ ncards = 2
    /\ gt_boost[1] = "900"
    /\ gt_min[1] = "300"
    /\ gt_max[1] = "900"
    /\ gt_boost[2] = gt_min[2]

\* Each cell holds one variant of its enumeration.
CellsValid ==
    /\ GAME_MODE \in GameModes
    /\ RTC_AUDIO_ACTIVE \in Modes
    /\ FULLSCREEN_VIDEO \in Modes

\* C22: each cell holds one valid variant before and after every step; before
\* the first call the cells hold Off, Inactive, Inactive; and a step changes a
\* cell only when it is a call of that cell's setter (a SetGameMode request,
\* set_rtc_audio_active, set_fullscreen_video), which leaves the cell holding
\* the mode it was given.
C22_CellsValidOwnSetter ==
    [][/\ CellsValid
       /\ CellsValid'
       /\ last.op = "none" => Cells = <<"Off", "Inactive", "Inactive">>
       /\ GAME_MODE' # GAME_MODE
             => (last'.op = "SetGameMode" /\ GAME_MODE' = GameModeFromU8(last'.byte))
       /\ RTC_AUDIO_ACTIVE' # RTC_AUDIO_ACTIVE
             => (last'.op = "set_rtc_audio_active" /\ RTC_AUDIO_ACTIVE' = last'.mode)
       /\ FULLSCREEN_VIDEO' # FULLSCREEN_VIDEO
             => (last'.op = "set_fullscreen_video" /\ FULLSCREEN_VIDEO' = last'.mode)]_vars

\* Every cell has left its initial value, each through its own setter, the
\* last one through set_fullscreen_video(Active).
C22_Witness ==
    /\ Cells = <<"Borealis", "Active", "Active">>
    /\ last.op = "set_fullscreen_video"
    /\ last.pre = <<"Borealis", "Active", "Inactive">>
    /\ game_req = [set |-> TRUE, byte |-> 1]

\* C23: when no thread is in set_rtc_audio_active or set_fullscreen_video any
\* more and no device operation failed in the calls made since that was last
\* so, every EPP file holds "179" if one of the two cells holds Active and
\* "balance_performance" otherwise, whatever the order of the threads' steps.
C23_ConcurrentSettersConverge ==
    (InPolicySetter = {} /\ policy_ok \in {"ok", "ok, overlapped"})
        => \A i \in Policies : epp[i] = EppExpected(RTC_AUDIO_ACTIVE, FULLSCREEN_VIDEO)

\* set_rtc_audio_active(Inactive), whose first set_epp writes
\* "balance_performance", and set_fullscreen_video(Active) overlapped and
\* have both returned: the files hold "179".
C23_Witness ==
    /\ \A t \in Threads : th[t] = Idle
    /\ policy_ok = "ok, overlapped"
    /\ RTC_AUDIO_ACTIVE = "Inactive"
    /\ FULLSCREEN_VIDEO = "Active"
    /\ gt_boost[1] = "900"
    /\ \A i \in Policies : epp[i] = "179"

\* The EPP value set_rtc_audio_active derives from its mode alone.
EppOfMode(mode) == IF mode = "Active" THEN "179" ELSE "balance_performance"

\* C24: a set_rtc_audio_active(m) whose write of the GT boost file fails
\* returns an error with that write as its last device operation (the
\* re-evaluation is not run): the RTC cell holds m, the other cells are as
\* before and every EPP file holds the value of m alone, whatever
\* FullscreenVideo holds; and a call that wrote an EPP file after the first
\* set_epp had written the GT boost file with success before.
C24_BoostWriteFailureSkipsReeval ==
    last.op = "set_rtc_audio_active" =>
       /\ (\E k \in LogOf("write_boost") : ~oplog[k].ok)
             => /\ ~last.ok
                /\ Cells = <<last.pre[1], last.mode, last.pre[3]>>
                /\ Len(oplog) = NumPolicies + 3
                /\ oplog[Len(oplog)].kind = "write_boost"
                /\ \A i \in Policies :
                      /\ Cardinality(LogAt("write_epp", i)) = 1
                      /\ epp[i] = EppOfMode(last.mode)
       /\ \A k \in LogOf("write_epp") :
             k > NumPolicies
                => \E j \in LogOf("write_boost") : j < k /\ oplog[j].ok

\* set_rtc_audio_active(Inactive) with FullscreenVideo Active: the boost write
\* failed and the EPP files hold "balance_performance", not the "179" the
\* two cells prescribe.
C24_Witness ==
    /\ last.op = "set_rtc_audio_active"
    /\ last.mode = "Inactive"
    /\ ~last.ok
    /\ \E k \in LogOf("write_boost") : ~oplog[k].ok
    /\ RTC_AUDIO_ACTIVE = "Inactive"
    /\ FULLSCREEN_VIDEO = "Active"
    /\ last.pre[2] = "Active"
    /\ \A i \in Policies : epp[i] = "balance_performance"

\* C25: a step that changes a GT boost file or performs an operation on a GT
\* file is a call of set_rtc_audio_active; the value that call writes is the
\* content of the min file (or the min sentinel) when its mode is Active and
\* of the max file (or the max sentinel) otherwise, whatever FullscreenVideo
\* holds; the re-evaluation that follows it in that call and the whole of a
\* set_fullscreen_video call perform EPP writes only and leave every GT file
\* as it was.
C25_GtBoostOnlyFromRtc ==
    [][/\ (gt_boost' # gt_boost \/ GtOpsOf(oplog') # {})
             => last'.op = "set_rtc_audio_active"
       /\ last'.op = "set_rtc_audio_active"
             => \A k \in DOMAIN oplog' :
                   oplog'[k].kind = "write_boost"
                      => LET card == oplog'[k].at
                             src == IF last'.mode = "Active" THEN "read_min" ELSE "read_max"
                             file == IF last'.mode = "Active" THEN gt_min ELSE gt_max
                             miss == IF last'.mode = "Active" THEN SentinelMin ELSE SentinelMax
                         IN /\ \E j \in 1..(k - 1) :
                                  /\ oplog'[j].kind = src
                                  /\ oplog'[j].at = card
                                  /\ oplog'[k].val = IF oplog'[j].ok THEN file[card] ELSE miss
                            /\ \A i \in (k + 1)..Len(oplog') : oplog'[i].kind = "write_epp"
       /\ last'.op = "set_fullscreen_video"
             => /\ UNCHANGED <<ncards, gt_min, gt_max, gt_boost>>
                /\ \A k \in DOMAIN oplog' : oplog'[k].kind = "write_epp"]_vars

\* set_rtc_audio_active(Inactive) wrote the max frequency to the boost file;
\* set_fullscreen_video(Active) then raised the EPP files to "179" and left
\* the boost file at the max frequency.
C25_Witness ==
    /\ last.op = "set_fullscreen_video"
    /\ last.ok
    /\ last.mode = "Active"
    /\ RTC_AUDIO_ACTIVE = "Inactive"
    /\ ncards = 1
    /\ gt_min[1] = "300"
    /\ gt_max[1] = "900"
    /\ gt_boost[1] = "900"
    /\ \A i \in Policies : epp[i] = "179"

\* C26: the bytes handed out so far, followed by the input that is left, are
\* the input; each fill_bytes (and the one inside next_u32 / next_u64) copies
\* the first min(left, dest.len) bytes of what was left to the front of dest,
\* zeroes the rest of dest and keeps the bytes after the copied ones; and a
\* call of fill_bytes, next_u32 or next_u64 made with no input left yields
\* zeroes only.
C26_FillBytesInOrder ==
    /\ rng.out \o buf = rng.input
    /\ rng.op \in {"fill_bytes", "next_u32", "next_u64"} =>
          LET amt == Min(Len(rng.pre), rng.n)
          IN /\ Len(dest) = rng.n
             /\ \A i \in 1..rng.n : dest[i] = IF i <= amt THEN rng.pre[i] ELSE 0
             /\ buf = SubSeq(rng.pre, amt + 1, Len(rng.pre))
             /\ Len(rng.pre) - Len(buf) = amt
             /\ rng.ok
             /\ rng.op = "next_u32" => (rng.n = U32Size /\ to_ne_bytes(rng.val, rng.target) = dest)
             /\ rng.op = "next_u64" => (rng.n = U64Size /\ to_ne_bytes(rng.val, rng.target) = dest)
             /\ rng.pre = <<>> =>
                   /\ dest = Zeroes(rng.n)
                   /\ rng.op # "fill_bytes" => rng.val = Zeroes(rng.n)
                   /\ buf = <<>>

\* An input of MaxInput bytes was handed out by several calls, the one
\* before the last a try_fill_bytes; the last, a fill_bytes, found one byte
\* left and put it before MaxDest - 1 zeroes.
C26_Witness ==
    /\ rng.op = "fill_bytes"
    /\ Len(rng.input) = MaxInput
    /\ rng.n = MaxDest
    /\ Len(rng.pre) = 1
    /\ rng.pre[1] # 0
    /\ dest = <<rng.pre[1]>> \o Zeroes(MaxDest - 1)
    /\ rng.out = rng.input
    /\ buf = <<>>
    /\ rng.prev.op = "try_fill_bytes"
    /\ rng.prev.ok

\* next_u64 with no input left returned zero.
ExhaustedNextU64 ==
    /\ rng.op = "next_u64"
    /\ rng.pre = <<>>
    /\ rng.input # <<>>
    /\ rng.val = Zeroes(U64Size)

\* C27: try_fill_bytes succeeds exactly when the input left is at least as
\* long as dest; when it succeeds dest holds the next dest.len bytes and they
\* are consumed; when it fails the input left is what it was before the call
\* (and dest is as it was), and a try_fill_bytes after a failed one, with a
\* dest no longer than what is left, succeeds (with a dest of exactly that
\* length it returns all the bytes left).
C27_TryFillBytesAllOrNothing ==
    /\ rng.op = "try_fill_bytes" =>
          /\ rng.ok <=> Len(rng.pre) >= rng.n
          /\ rng.ok => /\ dest = SubSeq(rng.pre, 1, rng.n)
                       /\ buf = SubSeq(rng.pre, rng.n + 1, Len(rng.pre))
          /\ ~rng.ok => /\ buf = rng.pre
                        /\ rng.out \o rng.pre = rng.input
                        /\ dest = [i \in 1..rng.n |-> JunkByte]
          /\ (rng.n = Len(rng.pre)) => (rng.ok /\ dest = rng.pre /\ buf = <<>>)
    /\ (rng.prev.op = "try_fill_bytes" /\ ~rng.prev.ok
           /\ rng.op = "try_fill_bytes" /\ rng.n <= Len(rng.pre))
          => (rng.ok /\ dest = SubSeq(rng.pre, 1, rng.n))

\* As in tests::try_fill_bytes_partial: after bytes were handed out, a
\* try_fill_bytes larger than what was left failed, and the next one, of
\* exactly the length left, returned the bytes left.
C27_Witness ==
    /\ rng.op = "try_fill_bytes"
    /\ rng.ok
    /\ rng.prev.op = "try_fill_bytes"
    /\ ~rng.prev.ok
    /\ rng.n = 2
    /\ Len(rng.pre) = 2
    /\ Len(rng.input) = 3
    /\ dest = rng.pre
    /\ dest[1] # dest[2]
    /\ buf = <<>>

\* The guards activate_physical_vg has returned.
Guards == {k \in DOMAIN avgs : avgs[k].result = "Ok(Some)"}

\* C28: for every guard, if the volume group's device existed at its creation
\* no vgchange -ay was issued for it and its drop issued no vgchange -an;
\* otherwise its creation issued vgchange -ay once, which ran, and its drop
\* issued vgchange -an once (none while the guard is alive); so a dropped
\* guard has issued the deactivation exactly when its creation had issued the
\* activation. A call that returned no guard issues no deactivation, and an
\* activation only when the command could not be run.
C28_DeactivatesIffActivated ==
    /\ \A k \in Guards :
          /\ avgs[k].existed =>
                /\ avgs[k].vg_name = "None"
                /\ avgs[k].activations = 0
                /\ avgs[k].deactivations = 0
          /\ ~avgs[k].existed =>
                /\ avgs[k].vg_name = "Some"
                /\ avgs[k].activations = 1
                /\ avgs[k].ay \in {"exit failure", "done"}
                /\ avgs[k].deactivations = IF avgs[k].live THEN 0 ELSE 1
          /\ ~avgs[k].live => (avgs[k].deactivations = 1 <=> avgs[k].activations = 1)
          /\ avgs[k].deactivations = 1 <=> avgs[k].an # "not run"
    /\ \A k \in DOMAIN avgs \ Guards :
          /\ ~avgs[k].live
          /\ avgs[k].deactivations = 0
          /\ avgs[k].activations = 1
                => (avgs[k].result = "Err" /\ avgs[k].ay = "spawn error" /\ ~avgs[k].existed)

\* The first guard activated the volume group; the second was created while
\* the device existed; the second was dropped without a deactivation and the
\* first deactivated the group at its drop.
C28_Witness ==
    /\ Len(avgs) = 2
    /\ avgs[1].result = "Ok(Some)"
    /\ ~avgs[1].existed
    /\ avgs[1].ay = "done"
    /\ ~avgs[1].live
    /\ avgs[1].an = "done"
    /\ avgs[1].deactivations = 1
    /\ avgs[2].result = "Ok(Some)"
    /\ avgs[2].existed
    /\ ~avgs[2].live
    /\ avgs[2].deactivations = 0
    /\ ~vg_device

====
